---- MODULE Spec2Model ----
(***************************************************************************)
(* Fitness tracker: exercise completion toggles, the workout completion    *)
(* cascade and the daily progress snapshot (models/Exercise.js,            *)
(* models/Workout.js, database/database.js).                               *)
(*                                                                         *)
(* The database is one SQLite connection: every SQL statement is atomic,   *)
(* and a model method is a chain of statements joined by callbacks and     *)
(* awaits.  Each statement of a method is one action here, so that the     *)
(* chains of two requests can interleave between statements.               *)
(***************************************************************************)
EXTENDS Integers, FiniteSets, Sequences, TLC

\* ------------------------------------------------------------------ bounds
MaxExercises == 2
MaxTime == 2
MaxCalls == 2
MaxWorkouts == 3
MaxProgressExercises == 3
\* The days the streak looks back (90 in the code).
LookbackDays == 4

\* --------------------------------------------------------------- constants
\* SQL NULL (completed_at of an exercise or workout that is not completed).
Null == -1

\* Clock ticks per calendar day: CURRENT_TIMESTAMP has a finer grain than
\* DATE(...) and toISOString().split('T')[0], which keep the day only.
TicksPerDay == 2

Users == {1, 2}
WorkoutIds == {1, 2}
\* The day keys the workout routes accept; two of the seven.
Days == {"day1", "day2"}
ExerciseIds == 1..MaxExercises
CallIds == 1..MaxCalls

\* now: the clock; exercises, workouts: the tables, as functions from the
\* ids of the rows that exist; progress: the rows of the progress table;
\* nextExerciseId: the AUTOINCREMENT counter; calls: the model-method calls
\* (promises) in flight or settled; clientState: the completed flags the
\* browser's ExerciseState holds; prev: a history variable, the call that
\* settled last and the tables as it left them.
VARIABLES now, exercises, workouts, progress, nextExerciseId, nextWorkoutId,
          calls, prev, clientState

vars == <<now, exercises, workouts, progress, nextExerciseId, nextWorkoutId,
          calls, prev, clientState>>

\* ----------------------------------------------------------- pure helpers
\* DATE(ts) of SQLite and new Date().toISOString().split('T')[0]: the day of
\* a timestamp; DATE(NULL) is NULL.
DateOf(ts) == IF ts = Null THEN Null ELSE ts \div TicksPerDay

\* Boolean(x) of a stored 0/1 column.
ToBoolean(x) == x # 0

\* A JavaScript true/false bound to a BOOLEAN column is stored as 1/0.
ToColumn(b) == IF b THEN 1 ELSE 0

\* Arguments a caller can pass as an id: null, a non-numeric string ('abc'),
\* a non-integer number (v + 0.5) and an integer (or its decimal string).
IdArg(t, v) == [t |-> t, v |-> v]
IdArgs ==
    {IdArg("null", 0), IdArg("nan", 0), IdArg("frac", 1)}
        \cup {IdArg("num", v) : v \in (0 - 1)..(MaxExercises + 1)}

\* Mutant: only the !id test.
ValidIdTruthy(id) == ~(id.t = "null" \/ (id.t = "num" /\ id.v = 0))

\* !id || !Number.isInteger(Number(id)) || Number(id) <= 0, negated.
ValidId(id) ==
    /\ ~(id.t = "null" \/ (id.t = "num" /\ id.v = 0))
    /\ id.t = "num"
    /\ id.v > 0

\* Mutant: the UPDATE matches every exercise of the exercise's workout.
SetExerciseCompletedWholeWorkout(ex, id, t) ==
    [e \in DOMAIN ex |->
        IF ex[e].workout_id = ex[id].workout_id
        THEN [ex[e] EXCEPT !.completed = 1, !.completed_at = t]
        ELSE ex[e]]

\* UPDATE exercises SET completed = TRUE, completed_at = CURRENT_TIMESTAMP
\* WHERE id = ?
SetExerciseCompleted(ex, id, t) ==
    [ex EXCEPT ![id].completed = 1, ![id].completed_at = t]

\* UPDATE exercises SET completed = FALSE, completed_at = NULL WHERE id = ?
SetExerciseIncomplete(ex, id) ==
    [ex EXCEPT ![id].completed = 0, ![id].completed_at = Null]

\* UPDATE workouts SET completed = TRUE, completed_at = CURRENT_TIMESTAMP
\* WHERE id = ?
SetWorkoutCompleted(wk, id, t) ==
    [wk EXCEPT ![id].completed = 1, ![id].completed_at = t]

\* UPDATE workouts SET completed = FALSE, completed_at = NULL WHERE id = ?
SetWorkoutIncomplete(wk, id) ==
    [wk EXCEPT ![id].completed = 0, ![id].completed_at = Null]

\* The exercises of a user: exercises e JOIN workouts w ON e.workout_id =
\* w.id WHERE w.user_id = ?
UserExercises(ex, wk, uid) ==
    {e \in DOMAIN ex :
        /\ ex[e].workout_id \in DOMAIN wk
        /\ wk[ex[e].workout_id].user_id = uid}

\* Mutant: counts every completed exercise, whatever the day of completed_at.
DailyCountAnyDay(ex, wk, uid, day) ==
    [total |-> Cardinality(UserExercises(ex, wk, uid)),
     completed |-> Cardinality({e \in UserExercises(ex, wk, uid) :
                        ex[e].completed = 1})]

\* progressQuery of updateDailyProgress: COUNT(e.id) and SUM(CASE WHEN
\* e.completed = 1 AND DATE(e.completed_at) = ? THEN 1 ELSE 0 END), with the
\* "|| 0" defaults.
DailyCount(ex, wk, uid, day) ==
    [total |-> Cardinality(UserExercises(ex, wk, uid)),
     completed |-> Cardinality({e \in UserExercises(ex, wk, uid) :
                        ex[e].completed = 1 /\ DateOf(ex[e].completed_at) = day})]

\* The count query of checkAndUpdateWorkoutCompletion: COUNT(*) and
\* SUM(CASE WHEN completed = 1 ...) FROM exercises WHERE workout_id = ?
WorkoutCount(ex, wid) ==
    [total |-> Cardinality({e \in DOMAIN ex : ex[e].workout_id = wid}),
     completed |-> Cardinality({e \in DOMAIN ex :
                        ex[e].workout_id = wid /\ ex[e].completed = 1})]

\* Mutant: the workout counts as complete as soon as one exercise is.
IsCompleteAny(total, completed) == completed > 0

\* Mutant: all of none counts as complete.
IsCompleteVacuous(total, completed) == completed = total

\* total > 0 && completed === total
IsComplete(total, completed) == total > 0 /\ completed = total

ProgressRow(uid, day, total, completed) ==
    [user_id |-> uid, date |-> day,
     total_exercises |-> total, completed_exercises |-> completed]

\* Mutant: a plain INSERT, no ON CONFLICT clause and no UNIQUE key.
UpsertProgressInsertOnly(p, uid, day, total, completed) ==
    p \cup {ProgressRow(uid, day, total, completed)}

\* Mutant: on a conflict the counts are added to the row's counts.
UpsertProgressAdding(p, uid, day, total, completed) ==
    IF \E r \in p : r.user_id = uid /\ r.date = day
    THEN {IF r.user_id = uid /\ r.date = day
          THEN [r EXCEPT !.total_exercises = @ + total,
                         !.completed_exercises = @ + completed]
          ELSE r : r \in p}
    ELSE p \cup {ProgressRow(uid, day, total, completed)}

\* Mutant: the counts are written to every row of the user, whatever its
\* date.
UpsertProgressAllDates(p, uid, day, total, completed) ==
    {IF r.user_id = uid
     THEN [r EXCEPT !.total_exercises = total, !.completed_exercises = completed]
     ELSE r : r \in p}
        \cup {ProgressRow(uid, day, total, completed)}

\* INSERT INTO progress ... ON CONFLICT(user_id, date) DO UPDATE SET
\* total_exercises = excluded.total_exercises, completed_exercises =
\* excluded.completed_exercises
UpsertProgress(p, uid, day, total, completed) ==
    IF \E r \in p : r.user_id = uid /\ r.date = day
    THEN {IF r.user_id = uid /\ r.date = day
          THEN [r EXCEPT !.total_exercises = total,
                         !.completed_exercises = completed]
          ELSE r : r \in p}
    ELSE p \cup {ProgressRow(uid, day, total, completed)}

\* ------------------------------------------------------------------ calls
NoRet == [id |-> 0, workout_id |-> 0, completed |-> FALSE, completed_at |-> Null]

IdleCall ==
    [kind |-> "none", pc |-> "idle", arg |-> IdArg("null", 0),
     t0 |-> 0, wid |-> 0, uid |-> 0, day |-> "none", today |-> Null, total |-> 0,
     completed |-> 0, outcome |-> "none", ret |-> NoRet]

\* A settled call: the promise is resolved ("ok", with its value) or
\* rejected (the error); the locals of the chain are gone.
Settle(call, outcome, ret) ==
    [IdleCall EXCEPT !.kind = call.kind, !.pc = "done",
                     !.outcome = outcome, !.ret = ret]

\* A call as it starts: its method, its argument and the time.
Begin(kind, arg, t) == [IdleCall EXCEPT !.kind = kind, !.arg = arg, !.t0 = t]

Running(c) == calls[c].pc \notin {"idle", "done"}

ToggleKinds == {"markCompleted", "markIncomplete"}

\* ---------------------------------------------------------------- actions
\* markCompleted(id) / markIncomplete(id) up to and including the UPDATE of
\* the exercise row: the validation, the statement, the this.changes test.
ToggleUpdate(c, kind, arg) ==
    /\ IF ~ValidId(arg)
       THEN /\ calls' = [calls EXCEPT ![c] = Settle(Begin(kind, arg, now), "ValidationError", NoRet)]
            /\ UNCHANGED <<exercises>>
       ELSE IF arg.v \notin DOMAIN exercises
       THEN /\ calls' = [calls EXCEPT ![c] = Settle(Begin(kind, arg, now), "NotFoundError", NoRet)]
            /\ UNCHANGED <<exercises>>
       ELSE /\ exercises' = IF kind = "markCompleted"
                            THEN SetExerciseCompleted(exercises, arg.v, now)
                            ELSE SetExerciseIncomplete(exercises, arg.v)
            /\ calls' = [calls EXCEPT ![c] =
                            [Begin(kind, arg, now) EXCEPT !.pc = "find"]]
    /\ UNCHANGED <<now, workouts, progress, nextExerciseId, nextWorkoutId>>

\* markCompleted(id) / markIncomplete(id) called by a caller that has no
\* call running.
StartToggle(c, kind, arg) ==
    /\ ~Running(c)
    /\ ToggleUpdate(c, kind, arg)

\* Mutant: the workout only has to exist.
OwnsWorkoutAny(wk, wid, uid) == wid \in DOMAIN wk

\* !workout || workout.user_id !== userId, negated
OwnsWorkout(wk, wid, uid) == wid \in DOMAIN wk /\ wk[wid].user_id = uid

\* PATCH /exercises/:id/complete and /incomplete by user uid, an id that
\* passed the parameter validation: verifyExerciseOwnership begins with
\* Exercise.findById(exerciseId), NotFoundError when there is no such row.
RouteVerifyExercise(c, uid, kind, arg) ==
    /\ ~Running(c)
    /\ calls' = [calls EXCEPT ![c] =
                    IF arg.v \notin DOMAIN exercises
                    THEN Settle(Begin(kind, arg, now), "NotFoundError", NoRet)
                    ELSE [Begin(kind, arg, now)
                            EXCEPT !.pc = "rtWorkout", !.uid = uid,
                                   !.wid = exercises[arg.v].workout_id]]
    /\ UNCHANGED <<now, exercises, workouts, progress, nextExerciseId, nextWorkoutId>>

\* verifyExerciseOwnership: Workout.findById(exercise.workout_id) and the
\* ownership test, AuthorizationError when it fails.
RouteVerifyWorkout(c) ==
    /\ calls[c].pc = "rtWorkout"
    /\ calls' = [calls EXCEPT ![c] =
                    IF ~OwnsWorkout(workouts, calls[c].wid, calls[c].uid)
                    THEN Settle(calls[c], "AuthorizationError", NoRet)
                    ELSE [calls[c] EXCEPT !.pc = "rtToggle"]]
    /\ UNCHANGED <<now, exercises, workouts, progress, nextExerciseId, nextWorkoutId>>

\* The route goes on to Exercise.markCompleted(id) / markIncomplete(id).
RouteToggle(c) ==
    /\ calls[c].pc = "rtToggle"
    /\ ToggleUpdate(c, calls[c].kind, calls[c].arg)

\* const exercise = await Exercise.findById(id); exercise.completed =
\* Boolean(exercise.completed)
FindExercise(c) ==
    /\ calls[c].pc = "find"
    /\ LET id == calls[c].arg.v IN
       IF id \notin DOMAIN exercises
       THEN calls' = [calls EXCEPT ![c] =
                        Settle(calls[c], "NotFoundError", NoRet)]
       ELSE calls' = [calls EXCEPT ![c].pc = "dpWorkout",
                                   ![c].wid = exercises[id].workout_id,
                                   ![c].ret = [id |-> id,
                                               workout_id |-> exercises[id].workout_id,
                                               completed |-> ToBoolean(exercises[id].completed),
                                               completed_at |-> exercises[id].completed_at]]
    /\ UNCHANGED <<now, exercises, workouts, progress, nextExerciseId, nextWorkoutId>>

\* updateDailyProgress(workoutId) called on its own: the validation of the
\* workout id, then the chain below.
StartDailyProgress(c, arg) ==
    /\ ~Running(c)
    /\ IF ~ValidId(arg)
       THEN calls' = [calls EXCEPT ![c] =
                        Settle(Begin("updateDailyProgress", arg, now), "Error", NoRet)]
       ELSE calls' = [calls EXCEPT ![c] =
                        [Begin("updateDailyProgress", arg, now)
                            EXCEPT !.pc = "dpWorkout", !.wid = arg.v]]
    /\ UNCHANGED <<now, exercises, workouts, progress, nextExerciseId, nextWorkoutId>>

\* The error a failed step of the chain settles the call with: a toggle
\* wraps it ('Failed to update related data'), a bare updateDailyProgress
\* rejects with it.
ChainError(kind, err) == IF kind \in ToggleKinds THEN "DatabaseError" ELSE err

\* updateDailyProgress: SELECT user_id FROM workouts WHERE id = ?, then
\* today = new Date().toISOString().split('T')[0]
DailyWorkout(c) ==
    /\ calls[c].pc = "dpWorkout"
    /\ IF calls[c].wid \notin DOMAIN workouts
       THEN calls' = [calls EXCEPT ![c] =
                        Settle(calls[c], ChainError(calls[c].kind, "NotFoundError"), NoRet)]
       ELSE calls' = [calls EXCEPT ![c].pc = "dpCount",
                                   ![c].uid = workouts[calls[c].wid].user_id,
                                   ![c].today = DateOf(now)]
    /\ UNCHANGED <<now, exercises, workouts, progress, nextExerciseId, nextWorkoutId>>

\* updateDailyProgress: the count query and the completed > total test
DailyRead(c) ==
    /\ calls[c].pc = "dpCount"
    /\ LET row == DailyCount(exercises, workouts, calls[c].uid, calls[c].today) IN
       IF row.completed > row.total
       THEN calls' = [calls EXCEPT ![c] =
                        Settle(calls[c], ChainError(calls[c].kind, "Error"), NoRet)]
       ELSE calls' = [calls EXCEPT ![c].pc = "dpUpsert",
                                   ![c].total = row.total,
                                   ![c].completed = row.completed]
    /\ UNCHANGED <<now, exercises, workouts, progress, nextExerciseId, nextWorkoutId>>

\* updateDailyProgress: the upsert; a bare call resolves here, a toggle goes
\* on to checkAndUpdateWorkoutCompletion(exercise.workout_id)
DailyUpsert(c) ==
    /\ calls[c].pc = "dpUpsert"
    /\ progress' = UpsertProgress(progress, calls[c].uid, calls[c].today,
                                  calls[c].total, calls[c].completed)
    /\ calls' = IF calls[c].kind \in ToggleKinds
                THEN [calls EXCEPT ![c].pc = "wcCount", ![c].total = 0,
                                   ![c].completed = 0]
                ELSE [calls EXCEPT ![c] =
                        Settle(calls[c], "ok", NoRet)]
    /\ UNCHANGED <<now, exercises, workouts, nextExerciseId, nextWorkoutId>>

\* checkAndUpdateWorkoutCompletion(workoutId) called on its own: the
\* validation of the workout id, then the chain below.
StartWorkoutCompletion(c, arg) ==
    /\ ~Running(c)
    /\ IF ~ValidId(arg)
       THEN calls' = [calls EXCEPT ![c] =
                        Settle(Begin("checkAndUpdateWorkoutCompletion", arg, now),
                               "Error", NoRet)]
       ELSE calls' = [calls EXCEPT ![c] =
                        [Begin("checkAndUpdateWorkoutCompletion", arg, now)
                            EXCEPT !.pc = "wcCount", !.wid = arg.v]]
    /\ UNCHANGED <<now, exercises, workouts, progress, nextExerciseId, nextWorkoutId>>

\* checkAndUpdateWorkoutCompletion: the count query and the completed >
\* total test
CascadeRead(c) ==
    /\ calls[c].pc = "wcCount"
    /\ LET row == WorkoutCount(exercises, calls[c].wid) IN
       IF row.completed > row.total
       THEN calls' = [calls EXCEPT ![c] =
                        Settle(calls[c], ChainError(calls[c].kind, "Error"), NoRet)]
       ELSE calls' = [calls EXCEPT ![c].pc = "wcFind",
                                   ![c].total = row.total,
                                   ![c].completed = row.completed]
    /\ UNCHANGED <<now, exercises, workouts, progress, nextExerciseId, nextWorkoutId>>

\* checkAndUpdateWorkoutCompletion: const workout = await
\* Workout.findById(workoutId); if (!workout) reject(NotFoundError)
CascadeFind(c) ==
    /\ calls[c].pc = "wcFind"
    /\ IF calls[c].wid \notin DOMAIN workouts
       THEN calls' = [calls EXCEPT ![c] =
                        Settle(calls[c], ChainError(calls[c].kind, "NotFoundError"),
                               NoRet)]
       ELSE calls' = [calls EXCEPT ![c].pc = "wcWrite"]
    /\ UNCHANGED <<now, exercises, workouts, progress, nextExerciseId, nextWorkoutId>>

\* checkAndUpdateWorkoutCompletion: Workout.markCompleted(workoutId) or
\* Workout.markIncomplete(workoutId) (the UPDATE, the this.changes test and
\* the read back of the row, whose value is dropped), then resolve(exercise);
\* a bare call resolves with {total, completed, workoutId, isComplete}
CascadeWrite(c) ==
    /\ calls[c].pc = "wcWrite"
    /\ IF calls[c].wid \notin DOMAIN workouts
       THEN /\ calls' = [calls EXCEPT ![c] =
                            Settle(calls[c], "DatabaseError", NoRet)]
            /\ UNCHANGED workouts
       ELSE /\ workouts' = IF IsComplete(calls[c].total, calls[c].completed)
                           THEN SetWorkoutCompleted(workouts, calls[c].wid, now)
                           ELSE SetWorkoutIncomplete(workouts, calls[c].wid)
            /\ calls' = [calls EXCEPT ![c] =
                            Settle(calls[c], "ok",
                                   IF calls[c].kind \in ToggleKinds
                                   THEN calls[c].ret
                                   ELSE [total |-> calls[c].total,
                                         completed |-> calls[c].completed,
                                         workoutId |-> calls[c].wid,
                                         isComplete |-> IsComplete(calls[c].total,
                                                                   calls[c].completed)])]
    /\ UNCHANGED <<now, exercises, progress, nextExerciseId, nextWorkoutId>>

\* The result a settled recompute or toggle resolves with.
CompletionResult(call) ==
    IF call.kind \in ToggleKinds
    THEN call.ret
    ELSE [total |-> call.total, completed |-> call.completed,
          workoutId |-> call.wid,
          isComplete |-> IsComplete(call.total, call.completed)]

\* Mutant: an UPDATE that changes no row is not looked at.
RowsChangedAlways(wk, id) == TRUE

\* if (this.changes === 0) reject(new Error('Workout not found')), negated
RowsChanged(wk, id) == id \in DOMAIN wk

\* checkAndUpdateWorkoutCompletion, where workouts can be deleted meanwhile:
\* the UPDATE of Workout.markCompleted(workoutId) or
\* Workout.markIncomplete(workoutId) and its this.changes test, on its own.
WorkoutUpdate(c) ==
    /\ calls[c].pc = "wcWrite"
    /\ IF ~RowsChanged(workouts, calls[c].wid)
       THEN /\ calls' = [calls EXCEPT ![c] =
                            Settle(calls[c], "DatabaseError", NoRet)]
            /\ UNCHANGED workouts
       ELSE /\ workouts' = IF calls[c].wid \notin DOMAIN workouts
                           THEN workouts
                           ELSE IF IsComplete(calls[c].total, calls[c].completed)
                           THEN SetWorkoutCompleted(workouts, calls[c].wid, now)
                           ELSE SetWorkoutIncomplete(workouts, calls[c].wid)
            /\ calls' = [calls EXCEPT ![c].pc = "wcReadBack"]
    /\ UNCHANGED <<now, exercises, progress, nextExerciseId, nextWorkoutId>>

\* Workout.findById(id).then(resolve): the read back of the row, null when
\* the row is gone; its value is dropped and the call resolves.
WorkoutReadBack(c) ==
    /\ calls[c].pc = "wcReadBack"
    /\ calls' = [calls EXCEPT ![c] = Settle(calls[c], "ok", CompletionResult(calls[c]))]
    /\ UNCHANGED <<now, exercises, workouts, progress, nextExerciseId, nextWorkoutId>>

\* PATCH /workouts/:id/complete and /incomplete by user uid:
\* Workout.findById(id) and the ownership test, 404 when the workout is
\* missing or belongs to someone else.
StartPatchWorkout(c, uid, kind, id) ==
    /\ ~Running(c)
    /\ calls' = [calls EXCEPT ![c] =
                    IF id \notin DOMAIN workouts \/ workouts[id].user_id # uid
                    THEN Settle(Begin(kind, IdArg("num", id), now), "NotFound", NoRet)
                    ELSE [Begin(kind, IdArg("num", id), now)
                            EXCEPT !.pc = "pwWrite", !.wid = id, !.uid = uid]]
    /\ UNCHANGED <<now, exercises, workouts, progress, nextExerciseId, nextWorkoutId>>

\* PATCH /workouts/:id/complete and /incomplete: Workout.markCompleted(id)
\* or Workout.markIncomplete(id), whatever the workout's exercises are; the
\* response carries the row read back.
PatchWorkoutWrite(c) ==
    /\ calls[c].pc = "pwWrite"
    /\ IF ~RowsChanged(workouts, calls[c].wid)
       THEN /\ calls' = [calls EXCEPT ![c] = Settle(calls[c], "Error", NoRet)]
            /\ UNCHANGED workouts
       ELSE /\ workouts' = IF calls[c].kind = "patchWorkoutComplete"
                           THEN SetWorkoutCompleted(workouts, calls[c].wid, now)
                           ELSE SetWorkoutIncomplete(workouts, calls[c].wid)
            /\ calls' = [calls EXCEPT ![c] =
                            Settle(calls[c], "ok",
                                   [id |-> calls[c].wid, workout_id |-> calls[c].wid,
                                    completed |-> calls[c].kind = "patchWorkoutComplete",
                                    completed_at |-> workouts'[calls[c].wid].completed_at])]
    /\ UNCHANGED <<now, exercises, progress, nextExerciseId, nextWorkoutId>>

\* ---------------------------------------------------------------- browser
\* ExerciseState.setWorkout(workout): the flags as the server sent them,
\* completed: Boolean(exercise.completed).
LoadedState(ex) == [e \in DOMAIN ex |-> ToBoolean(ex[e].completed)]

\* ExerciseState.updateExercise(id, completed): the flag is set when the
\* map has the exercise.
UpdateClientExercise(st, id, completed) ==
    IF id \in DOMAIN st THEN [st EXCEPT ![id] = completed] ELSE st

\* The catch branch of markExerciseComplete / markExerciseIncomplete:
\* exerciseState.updateExercise(exerciseId, false / true), the opposite of
\* the optimistic update.
FlagOnFailure(kind) == kind # "markCompleted"

\* The exercise of the page whose checkbox is used.
BrowserExercise == CHOOSE e \in ExerciseIds : \A x \in ExerciseIds : e <= x

\* The change handler of the checkbox and the start of
\* markExerciseComplete / markExerciseIncomplete: checking the box of an
\* exercise shown incomplete marks it complete, unchecking marks it
\* incomplete; the optimistic update, then the PATCH request is sent.
ClientMark(c, kind) ==
    /\ calls[c].pc = "idle"
    /\ BrowserExercise \in DOMAIN clientState
    /\ kind = IF clientState[BrowserExercise] THEN "markIncomplete" ELSE "markCompleted"
    /\ clientState' = UpdateClientExercise(clientState, BrowserExercise,
                                           kind = "markCompleted")
    /\ calls' = [calls EXCEPT ![c] =
                    [Begin(kind, IdArg("num", BrowserExercise), now)
                        EXCEPT !.pc = "sent"]]
    /\ UNCHANGED <<now, exercises, workouts, progress, nextExerciseId, nextWorkoutId>>

\* The request reaches the server, which runs Exercise.markCompleted(id) /
\* markIncomplete(id) for the owner.
ServerReceive(c) ==
    /\ calls[c].pc = "sent"
    /\ ToggleUpdate(c, calls[c].kind, calls[c].arg)
    /\ UNCHANGED clientState

\* The response arrives: with result.exercise the flag becomes
\* Boolean(result.exercise.completed); an error response throws in
\* apiRequest and the catch branch runs.
ClientReceive(c) ==
    /\ calls[c].pc = "done"
    /\ calls[c].kind \in ToggleKinds
    /\ clientState' = UpdateClientExercise(clientState, BrowserExercise,
                            IF calls[c].outcome = "ok"
                            THEN calls[c].ret.completed
                            ELSE FlagOnFailure(calls[c].kind))
    /\ calls' = [calls EXCEPT ![c] = IdleCall]
    /\ UNCHANGED <<now, exercises, workouts, progress, nextExerciseId, nextWorkoutId>>

\* fetch rejects on every attempt of apiRequest, the request lost before
\* the server saw it or the response lost after the server answered: the
\* catch branch runs.
ClientNetworkError(c) ==
    /\ calls[c].pc \in {"sent", "done"}
    /\ calls[c].kind \in ToggleKinds
    /\ clientState' = UpdateClientExercise(clientState, BrowserExercise,
                                           FlagOnFailure(calls[c].kind))
    /\ calls' = [calls EXCEPT ![c] = IdleCall]
    /\ UNCHANGED <<now, exercises, workouts, progress, nextExerciseId, nextWorkoutId>>

\* The row INSERT INTO workouts makes: completed defaults to FALSE.
NewWorkout(uid, day) ==
    [user_id |-> uid, day |-> day, completed |-> 0, completed_at |-> Null]

\* The row INSERT INTO exercises makes of the values it is given.
NewExercise(wid, completed, completed_at) ==
    [workout_id |-> wid, completed |-> ToColumn(completed),
     completed_at |-> completed_at]

\* The workout ids a caller passes: those of the fixture and one that
\* references no workout.
WorkoutArgs == WorkoutIds \cup {Cardinality(WorkoutIds) + 1}

\* Exercise.create({workout_id, completed = false, completed_at = null}):
\* Workout.findById(workout_id), then the INSERT with the values as given;
\* the id is the table's AUTOINCREMENT key.  The call resolves with the
\* values it was given.
CreateExercise(c, wid, completed, completed_at) ==
    /\ ~Running(c)
    /\ nextExerciseId <= MaxExercises
    /\ IF wid \notin DOMAIN workouts
       THEN /\ calls' = [calls EXCEPT ![c] =
                            Settle(Begin("create", IdArg("num", wid), now),
                                   "NotFoundError", NoRet)]
            /\ UNCHANGED <<exercises, nextExerciseId>>
       ELSE /\ exercises' = (nextExerciseId :> NewExercise(wid, completed, completed_at))
                                @@ exercises
            /\ nextExerciseId' = nextExerciseId + 1
            /\ calls' = [calls EXCEPT ![c] =
                            Settle(Begin("create", IdArg("num", wid), now), "ok",
                                   [id |-> nextExerciseId, workout_id |-> wid,
                                    completed |-> completed,
                                    completed_at |-> completed_at])]
    /\ UNCHANGED <<now, workouts, progress, nextWorkoutId>>

\* The updateData objects of Exercise.update, as far as they name the
\* columns completed and completed_at; the empty one stands for an update
\* of other columns only.
UpdateDatas(t) ==
    UNION {{d \in [D -> {0, 1, Null, t}] :
                /\ "completed" \in D => d["completed"] \in {0, 1}
                /\ "completed_at" \in D => d["completed_at"] \in {Null, t}}
           : D \in SUBSET {"completed", "completed_at"}}

\* UPDATE exercises SET <field> = ?, ... WHERE id = ?
SetExerciseFields(ex, id, data) ==
    [ex EXCEPT ![id] = [f \in DOMAIN ex[id] |->
                            IF f \in DOMAIN data THEN data[f] ELSE ex[id][f]]]

\* Exercise.update(id, updateData): the UPDATE; resolves with the number of
\* rows changed, whatever it is.
UpdateExercise(c, arg, data) ==
    /\ ~Running(c)
    /\ exercises' = IF arg.t = "num" /\ arg.v \in DOMAIN exercises
                    THEN SetExerciseFields(exercises, arg.v, data)
                    ELSE exercises
    /\ calls' = [calls EXCEPT ![c] = Settle(Begin("update", arg, now), "ok", NoRet)]
    /\ UNCHANGED <<now, workouts, progress, nextExerciseId, nextWorkoutId>>

\* DELETE FROM exercises WHERE id = ?
DeleteRow(ex, id) == [e \in DOMAIN ex \ {id} |-> ex[e]]

\* Exercise.delete(id): the DELETE; resolves with the number of rows
\* deleted, whatever it is.
DeleteExercise(c, arg) ==
    /\ ~Running(c)
    /\ exercises' = IF arg.t = "num" /\ arg.v \in DOMAIN exercises
                    THEN DeleteRow(exercises, arg.v)
                    ELSE exercises
    /\ calls' = [calls EXCEPT ![c] = Settle(Begin("delete", arg, now), "ok", NoRet)]
    /\ UNCHANGED <<now, workouts, progress, nextExerciseId, nextWorkoutId>>

\* Mutant: the lookup finds nothing and the table has no UNIQUE key.
WorkoutsOfKeyNoIndex(wk, uid, day) == {}

\* SELECT * FROM workouts WHERE user_id = ? AND day = ?
WorkoutsOfKey(wk, uid, day) ==
    {w \in DOMAIN wk : wk[w].user_id = uid /\ wk[w].day = day}

\* POST /workouts by user uid: Workout.findByUserAndDay(req.user.id, day);
\* 409 'Workout already exists for this day' when it finds a row, else on
\* to Workout.create.
StartPostWorkout(c, uid, day) ==
    /\ ~Running(c)
    /\ nextWorkoutId <= MaxWorkouts
    /\ calls' = [calls EXCEPT ![c] =
                    IF WorkoutsOfKey(workouts, uid, day) # {}
                    THEN Settle(Begin("postWorkout", IdArg("num", uid), now),
                                "Conflict", NoRet)
                    ELSE [Begin("postWorkout", IdArg("num", uid), now)
                            EXCEPT !.pc = "wkUser", !.uid = uid, !.day = day]]
    /\ UNCHANGED <<now, exercises, workouts, progress, nextExerciseId, nextWorkoutId>>

\* Workout.create: const user = await User.findById(user_id); if (!user)
\* throw new Error('User not found')
WorkoutFindUser(c) ==
    /\ calls[c].pc = "wkUser"
    /\ calls' = IF calls[c].uid \notin Users
                THEN [calls EXCEPT ![c] = Settle(calls[c], "Error", NoRet)]
                ELSE [calls EXCEPT ![c].pc = "wkInsert"]
    /\ UNCHANGED <<now, exercises, workouts, progress, nextExerciseId, nextWorkoutId>>

\* Workout.create: the INSERT; UNIQUE(user_id, day) makes it fail with
\* 'Workout for this day already exists for this user' (the route's 409),
\* else the row gets the AUTOINCREMENT id.
InsertWorkout(c) ==
    /\ calls[c].pc = "wkInsert"
    /\ IF WorkoutsOfKey(workouts, calls[c].uid, calls[c].day) # {}
       THEN /\ calls' = [calls EXCEPT ![c] = Settle(calls[c], "AlreadyExists", NoRet)]
            /\ UNCHANGED <<workouts, nextWorkoutId>>
       ELSE /\ workouts' = (nextWorkoutId :> NewWorkout(calls[c].uid, calls[c].day))
                                @@ workouts
            /\ nextWorkoutId' = nextWorkoutId + 1
            /\ calls' = [calls EXCEPT ![c] =
                            Settle(calls[c], "ok",
                                   [id |-> nextWorkoutId, workout_id |-> nextWorkoutId,
                                    completed |-> FALSE, completed_at |-> Null])]
    /\ UNCHANGED <<now, exercises, progress, nextExerciseId>>

\* DELETE FROM workouts WHERE id = ?, with PRAGMA foreign_keys = ON and
\* exercises.workout_id ... ON DELETE CASCADE: the exercise rows that
\* reference the workout go with it.
DeleteWorkoutRows(wk, id) == [w \in DOMAIN wk \ {id} |-> wk[w]]

\* Mutant: foreign keys are not enforced, the exercise rows stay.
CascadeDeleteExercisesOff(ex, id) == ex

CascadeDeleteExercises(ex, id) ==
    [e \in {x \in DOMAIN ex : ex[x].workout_id # id} |-> ex[e]]

\* Workout.delete(id): the DELETE; resolves with the number of rows
\* deleted, whatever it is.
DeleteWorkout(c, arg) ==
    /\ ~Running(c)
    /\ IF arg.t = "num" /\ arg.v \in DOMAIN workouts
       THEN /\ workouts' = DeleteWorkoutRows(workouts, arg.v)
            /\ exercises' = CascadeDeleteExercises(exercises, arg.v)
       ELSE UNCHANGED <<workouts, exercises>>
    /\ calls' = [calls EXCEPT ![c] = Settle(Begin("deleteWorkout", arg, now), "ok", NoRet)]
    /\ UNCHANGED <<now, progress, nextExerciseId, nextWorkoutId>>

\* Mutant: Math.floor in place of Math.round.
MathFloor(n, d) == n \div d

\* Math.round(n / d) for n >= 0, d > 0: the nearest integer, a half goes up.
MathRound(n, d) == (2 * n + d) \div (2 * d)

\* getWorkoutProgress: the count query, total > 0 ? Math.round((completed /
\* total) * 100) : 0
WorkoutProgress(ex, wid) ==
    LET row == WorkoutCount(ex, wid) IN
    [total |-> row.total, completed |-> row.completed,
     percentage |-> IF row.total > 0
                    THEN MathRound(row.completed * 100, row.total)
                    ELSE 0]

\* Exercise.getWorkoutProgress(workoutId): resolves with {total, completed,
\* percentage}; writes nothing.
GetWorkoutProgress(c, wid) ==
    /\ ~Running(c)
    /\ calls' = [calls EXCEPT ![c] =
                    Settle(Begin("getWorkoutProgress", IdArg("num", wid), now), "ok",
                           WorkoutProgress(exercises, wid))]
    /\ UNCHANGED <<now, exercises, workouts, progress, nextExerciseId, nextWorkoutId>>

\* The day keys of the week, Monday first; day 0 of the model's calendar is
\* taken to be a Monday.
DayKeys == <<"day1", "day2", "day3", "day4", "day5", "day6", "day7">>

\* getDailyProgress: dayOfWeek === 0 ? 'day7' : `day${dayOfWeek}`
DayKey(date) == DayKeys[(date % Len(DayKeys)) + 1]

\* getDailyProgress(userId, date): the progress row of (userId, date) when
\* there is one; otherwise completed = the user's exercises completed on
\* that date and total = the exercises of the user's workout for the date's
\* day of the week.
DailyProgressOf(p, ex, wk, uid, date) ==
    LET rows == {r \in p : r.user_id = uid /\ r.date = date}
        row == CHOOSE r \in rows : TRUE
        dated == DailyCount(ex, wk, uid, date).completed
        ofDay == {e \in UserExercises(ex, wk, uid) :
                    wk[ex[e].workout_id].day = DayKey(date)}
        total == IF rows # {} THEN row.total_exercises ELSE Cardinality(ofDay)
        completed == IF rows # {} THEN row.completed_exercises
                     ELSE IF dated > 0 THEN dated ELSE 0
    IN [total |-> total, completed |-> completed,
        percentage |-> IF total > 0 THEN MathRound(completed * 100, total) ELSE 0]

\* Exercise.getDailyProgress(userId, date): resolves with {total, completed,
\* percentage}; writes nothing.
GetDailyProgress(c, uid, date) ==
    /\ ~Running(c)
    /\ calls' = [calls EXCEPT ![c] =
                    Settle(Begin("getDailyProgress", IdArg("num", date), now), "ok",
                           DailyProgressOf(progress, exercises, workouts, uid, date))]
    /\ UNCHANGED <<now, exercises, workouts, progress, nextExerciseId, nextWorkoutId>>

\* GET /progress/streak: the dates of the loop that collects workoutData.
\* The loop runs from moment().subtract(90, 'days') while
\* day.isSameOrBefore(today): its bound is a second reading of the clock,
\* compared to the first to the millisecond, so the last date is today when
\* both readings agree (sameTick) and yesterday when they do not.
StreakDates(today, sameTick) ==
    [i \in 1..(IF sameTick THEN LookbackDays + 1 ELSE LookbackDays) |->
        today - LookbackDays + (i - 1)]

\* workoutData: {date, hasWorkout: progress.completed > 0} per date
WorkoutData(p, ex, wk, uid, dates) ==
    [i \in DOMAIN dates |->
        [date |-> dates[i],
         hasWorkout |-> DailyProgressOf(p, ex, wk, uid, dates[i]).completed > 0]]

\* The variables of the streak loop as it starts.
StreakStart ==
    [currentStreak |-> 0, longestStreak |-> 0, tempStreak |-> 0,
     lastWorkoutDate |-> Null, streakBroken |-> FALSE]

\* isToday || isYesterday of the loop, for a day without a workout
StreakGrace(date, today) == date = today \/ date = today - 1

\* if (currentStreak > 0) break
StreakBreaks(st) == st.currentStreak > 0

RECURSIVE StreakLoop(_, _, _, _)
\* for (let i = workoutData.length - 1; i >= 0; i--) { ... }
StreakLoop(data, i, today, st) ==
    IF i < 1 THEN st
    ELSE IF data[i].hasWorkout
    THEN StreakLoop(data, i - 1, today,
            [st EXCEPT !.currentStreak = IF st.streakBroken THEN @ ELSE @ + 1,
                       !.lastWorkoutDate = IF ~st.streakBroken /\ @ = Null
                                           THEN data[i].date ELSE @,
                       !.tempStreak = @ + 1])
    ELSE IF /\ st.currentStreak = 0
            /\ StreakGrace(data[i].date, today)
            /\ data[i].date = today \/ ~st.streakBroken
    THEN StreakLoop(data, i - 1, today,
            [st EXCEPT !.streakBroken = IF data[i].date = today - 1 THEN TRUE ELSE @])
    ELSE LET next == [st EXCEPT !.longestStreak = IF st.tempStreak > @
                                                  THEN st.tempStreak ELSE @,
                                !.tempStreak = 0]
         IN IF StreakBreaks(next) THEN next
            ELSE StreakLoop(data, i - 1, today, next)

\* Mutant: the candidate never replaces longestStreak.
StreakLongerNever(candidate, longest) == longest

\* if (candidate > longestStreak) longestStreak = candidate
StreakLonger(candidate, longest) == IF candidate > longest THEN candidate ELSE longest

\* The loop, the two final checks of longestStreak and the response.
Streak(data, today) ==
    LET st == StreakLoop(data, Len(data), today, StreakStart)
        longest == StreakLonger(st.tempStreak,
                                StreakLonger(st.currentStreak, st.longestStreak))
    IN [currentStreak |-> st.currentStreak, longestStreak |-> longest,
        lastWorkoutDate |-> st.lastWorkoutDate,
        streakStartDate |-> IF st.currentStreak > 0
                            THEN st.lastWorkoutDate - (st.currentStreak - 1)
                            ELSE Null]

\* Mutant: a read of a date without a progress row stores a zero row.
ProgressAfterReadsFilling(p, uid, dates) ==
    p \cup {ProgressRow(uid, dates[i], 0, 0) :
                i \in {j \in DOMAIN dates :
                         \A r \in p : ~(r.user_id = uid /\ r.date = dates[j])}}

\* The progress table after getDailyProgress was called for the dates: its
\* statements are SELECTs, the table is as before.
ProgressAfterReads(p, uid, dates) == p

\* The time zones a server runs in, as the ticks its local clock is ahead
\* of UTC: half a day west, UTC, half a day east.
Zones == {0 - 1, 0, 1}

\* moment() and day.format('YYYY-MM-DD'): the day of a timestamp on the
\* server's local clock.
LocalDateOf(ts, zone) == (ts + zone) \div TicksPerDay

\* GET /progress/streak for user uid on a server in time zone zone.
GetStreakAt(c, uid, sameTick, zone) ==
    /\ ~Running(c)
    /\ LET today == LocalDateOf(now, zone)
           data == WorkoutData(progress, exercises, workouts, uid,
                               StreakDates(today, sameTick))
       IN calls' = [calls EXCEPT ![c] =
                        Settle(Begin("getStreak", IdArg("num", uid), now), "ok",
                               Streak(data, today))]
    /\ progress' = ProgressAfterReads(progress, uid,
                                      StreakDates(LocalDateOf(now, zone), sameTick))
    /\ UNCHANGED <<now, exercises, workouts, nextExerciseId, nextWorkoutId>>

\* GET /progress/streak for user uid on a server whose clock is UTC.
GetStreak(c, uid, sameTick) == GetStreakAt(c, uid, sameTick, 0)

\* ---------------------------------------------------------------- calendar
\* Dates are day numbers; day 0 is 2024-01-01, a Monday.
EpochYear == 2024

IsLeapYear(y) == (y % 4 = 0 /\ y % 100 # 0) \/ y % 400 = 0

\* The days from 0001-01-01 to January 1 of year y.
DaysToYear(y) ==
    365 * (y - 1) + ((y - 1) \div 4) - ((y - 1) \div 100) + ((y - 1) \div 400)

\* Mutant: February never has a 29th.
MonthLengthsNoLeap(y) == <<31, 28, 31, 30, 31, 30, 31, 31, 30, 31, 30, 31>>

\* The days of the months of year y, as endOf('month') finds them.
MonthLengths(y) ==
    <<31, IF IsLeapYear(y) THEN 29 ELSE 28, 31, 30, 31, 30, 31, 31, 30, 31, 30, 31>>

RECURSIVE DaysToMonth(_, _)
\* The days from January 1 of year y to the first of month m.
DaysToMonth(y, m) ==
    IF m <= 1 THEN 0 ELSE DaysToMonth(y, m - 1) + MonthLengths(y)[m - 1]

\* moment(`${year}-${month}-${day}`) as a day number
DateNumber(y, m, d) ==
    DaysToYear(y) - DaysToYear(EpochYear) + DaysToMonth(y, m) + (d - 1)

\* moment#day(): 0 = Sunday ... 6 = Saturday
Weekday(date) == (date + 1) % 7

\* The month before and the month after month m of year y.
PrevMonth(y, m) == IF m = 1 THEN <<y - 1, 12>> ELSE <<y, m - 1>>
NextMonth(y, m) == IF m = 12 THEN <<y + 1, 1>> ELSE <<y, m + 1>>

\* The year and month of a date that lies in month m of year y or in a
\* month next to it, as isSame(..., 'month') reads them.
YearMonthOf(date, y, m) ==
    CHOOSE ym \in {PrevMonth(y, m), <<y, m>>, NextMonth(y, m)} :
        /\ DateNumber(ym[1], ym[2], 1) <= date
        /\ date < DateNumber(ym[1], ym[2], 1) + MonthLengths(ym[1])[ym[2]]

\* moment(`${year}-${month}-01`, 'YYYY-MM-DD', true).isValid(), for a
\* four-digit year and a two-digit month
ValidYearMonth(y, m) == m \in 1..12

\* GET /progress/calendar/:year/:month: the cells from startOf('week') of
\* the first of the month to endOf('week') of its last day, each with the
\* daily progress of its date.
BuildCalendar(p, ex, wk, uid, y, m) ==
    LET startOfMonth == DateNumber(y, m, 1)
        endOfMonth == startOfMonth + MonthLengths(y)[m] - 1
        startOfCalendar == startOfMonth - Weekday(startOfMonth)
        endOfCalendar == endOfMonth + (6 - Weekday(endOfMonth))
    IN [i \in 1..(endOfCalendar - startOfCalendar + 1) |->
            LET date == startOfCalendar + (i - 1) IN
            [date |-> date,
             isCurrentMonth |-> YearMonthOf(date, y, m) = <<y, m>>,
             progress |-> DailyProgressOf(p, ex, wk, uid, date)]]

\* The request GET /progress/calendar/:year/:month of user uid; the settled
\* call keeps the month it was asked for.
GetCalendar(c, uid, y, m) ==
    /\ ~Running(c)
    /\ calls' = [calls EXCEPT ![c] =
                    IF ~ValidYearMonth(y, m)
                    THEN Settle(Begin("getCalendar", IdArg("month", y * 100 + m), now),
                                "BadRequest", NoRet)
                    ELSE [Settle(Begin("getCalendar", IdArg("month", y * 100 + m), now),
                                 "ok",
                                 [calendar |-> BuildCalendar(progress, exercises,
                                                             workouts, uid, y, m)])
                            EXCEPT !.arg = IdArg("month", y * 100 + m)]]
    /\ UNCHANGED <<now, exercises, workouts, progress, nextExerciseId, nextWorkoutId>>

\* The clock: a second, and now and then a day, passes.
Tick ==
    /\ now < MaxTime
    /\ now' = now + 1
    /\ UNCHANGED <<exercises, workouts, progress, nextExerciseId, nextWorkoutId, calls>>

\* ------------------------------------------------------ history variable
\* The call that settled last and the tables as they were right after it
\* settled.  Of a toggle that succeeded it keeps the method, the argument
\* and the time the call started; any other call is kept as "other".
Snapshot(call, t0, ex, wk, p) ==
    IF call.kind \in ToggleKinds /\ call.outcome = "ok"
    THEN [kind |-> call.kind, arg |-> IdArg("num", call.ret.id), t0 |-> t0,
          ex |-> ex, wk |-> wk, p |-> p]
    ELSE [kind |-> "other", arg |-> IdArg("null", 0), t0 |-> 0,
          ex |-> ex, wk |-> wk, p |-> p]

\* prev follows slot c: it is rewritten by the step that settles a call.
TrackPrev(c) ==
    prev' = IF /\ calls'[c].pc = "done"
               /\ \/ Running(c)
                  \/ calls'[c] # calls[c]
                  \/ <<exercises', workouts', progress'>> # <<exercises, workouts, progress>>
            THEN Snapshot(calls'[c], IF Running(c) THEN calls[c].t0 ELSE now,
                          exercises', workouts', progress')
            ELSE prev

\* ---------------------------------------------------------- initial states

\* The fixture of the model tests: workouts created by Workout.create and
\* then their exercises by Exercise.create, workout after workout, with the
\* default completed = false, completed_at = null; nothing toggled yet.
InitFixture ==
    /\ now = 0
    /\ \E owner \in Users :
         workouts = (1 :> NewWorkout(1, "day1")) @@ (2 :> NewWorkout(owner, "day2"))
    /\ \E place \in [ExerciseIds -> WorkoutIds] :
         /\ \A e1, e2 \in ExerciseIds : e1 <= e2 => place[e1] <= place[e2]
         /\ exercises = [e \in ExerciseIds |-> NewExercise(place[e], FALSE, Null)]
    /\ nextExerciseId = MaxExercises + 1
    /\ nextWorkoutId = Cardinality(WorkoutIds) + 1
    /\ progress = {}
    /\ calls = [c \in CallIds |-> IdleCall]
    /\ prev = Snapshot(IdleCall, 0, exercises, workouts, progress)
    /\ clientState = LoadedState(exercises)

\* Toggles and refreshes, each run to completion before the next starts.
NextToggle ==
    \/ Tick /\ UNCHANGED <<prev, clientState>>
    \/ \E kind \in ToggleKinds, arg \in IdArgs :
         StartToggle(1, kind, arg) /\ UNCHANGED <<prev, clientState>>
    \/ \E arg \in IdArgs : StartDailyProgress(1, arg) /\ UNCHANGED <<prev, clientState>>
    \/ FindExercise(1) /\ UNCHANGED <<prev, clientState>>
    \/ DailyWorkout(1) /\ UNCHANGED <<prev, clientState>>
    \/ DailyRead(1) /\ UNCHANGED <<prev, clientState>>
    \/ DailyUpsert(1) /\ UNCHANGED <<prev, clientState>>
    \/ CascadeRead(1) /\ UNCHANGED <<prev, clientState>>
    \/ CascadeFind(1) /\ UNCHANGED <<prev, clientState>>
    \/ CascadeWrite(1) /\ UNCHANGED <<prev, clientState>>

SpecToggle == InitFixture /\ [][NextToggle]_vars

\* Toggles of existing exercises, each run to completion before the next
\* starts, with the history of the call before.
NextTwice ==
    \/ Tick /\ TrackPrev(1) /\ UNCHANGED clientState
    \/ \E kind \in ToggleKinds, e \in ExerciseIds :
         StartToggle(1, kind, IdArg("num", e)) /\ TrackPrev(1) /\ UNCHANGED clientState
    \/ FindExercise(1) /\ TrackPrev(1) /\ UNCHANGED clientState
    \/ DailyWorkout(1) /\ TrackPrev(1) /\ UNCHANGED clientState
    \/ DailyRead(1) /\ TrackPrev(1) /\ UNCHANGED clientState
    \/ DailyUpsert(1) /\ TrackPrev(1) /\ UNCHANGED clientState
    \/ CascadeRead(1) /\ TrackPrev(1) /\ UNCHANGED clientState
    \/ CascadeFind(1) /\ TrackPrev(1) /\ UNCHANGED clientState
    \/ CascadeWrite(1) /\ TrackPrev(1) /\ UNCHANGED clientState

SpecTwice == InitFixture /\ [][NextTwice]_vars

\* Toggles of existing exercises by requests that overlap: the statements of
\* the calls in flight interleave in any order.  The requests are served
\* within one reading of the clock, so all of them see the same day.
NextConcurrent ==
    \/ \E c \in CallIds, kind \in ToggleKinds, e \in ExerciseIds :
         StartToggle(c, kind, IdArg("num", e)) /\ UNCHANGED <<prev, clientState>>
    \/ \E c \in CallIds : FindExercise(c) /\ UNCHANGED <<prev, clientState>>
    \/ \E c \in CallIds : DailyWorkout(c) /\ UNCHANGED <<prev, clientState>>
    \/ \E c \in CallIds : DailyRead(c) /\ UNCHANGED <<prev, clientState>>
    \/ \E c \in CallIds : DailyUpsert(c) /\ UNCHANGED <<prev, clientState>>
    \/ \E c \in CallIds : CascadeRead(c) /\ UNCHANGED <<prev, clientState>>
    \/ \E c \in CallIds : CascadeFind(c) /\ UNCHANGED <<prev, clientState>>
    \/ \E c \in CallIds : CascadeWrite(c) /\ UNCHANGED <<prev, clientState>>

SpecConcurrent == InitFixture /\ [][NextConcurrent]_vars

\* The database after the schema is set up and two workouts are created:
\* no exercises, no progress rows.
Init ==
    /\ now = 0
    /\ \E owner \in Users :
         workouts = (1 :> NewWorkout(1, "day1")) @@ (2 :> NewWorkout(owner, "day2"))
    /\ exercises = <<>>
    /\ nextExerciseId = 1
    /\ nextWorkoutId = Cardinality(WorkoutIds) + 1
    /\ progress = {}
    /\ calls = [c \in CallIds |-> IdleCall]
    /\ prev = Snapshot(IdleCall, 0, exercises, workouts, progress)
    /\ clientState = LoadedState(exercises)

\* The ids a caller passes to update, delete and the toggles: those the
\* table has handed out or will, and one it never will.
RowArgs == {IdArg("num", e) : e \in 1..(MaxExercises + 1)}

\* The operations of the Exercise model that write exercise rows, each call
\* run to completion before the next starts.
Next ==
    \/ Tick /\ UNCHANGED <<prev, clientState>>
    \/ \E wid \in WorkoutArgs, completed \in BOOLEAN, completed_at \in {Null, now} :
         CreateExercise(1, wid, completed, completed_at) /\ UNCHANGED <<prev, clientState>>
    \/ \E arg \in RowArgs, data \in UpdateDatas(now) :
         UpdateExercise(1, arg, data) /\ UNCHANGED <<prev, clientState>>
    \/ \E arg \in RowArgs : DeleteExercise(1, arg) /\ UNCHANGED <<prev, clientState>>
    \/ \E kind \in ToggleKinds, arg \in RowArgs :
         StartToggle(1, kind, arg) /\ UNCHANGED <<prev, clientState>>
    \/ FindExercise(1) /\ UNCHANGED <<prev, clientState>>
    \/ DailyWorkout(1) /\ UNCHANGED <<prev, clientState>>
    \/ DailyRead(1) /\ UNCHANGED <<prev, clientState>>
    \/ DailyUpsert(1) /\ UNCHANGED <<prev, clientState>>
    \/ CascadeRead(1) /\ UNCHANGED <<prev, clientState>>
    \/ CascadeFind(1) /\ UNCHANGED <<prev, clientState>>
    \/ CascadeWrite(1) /\ UNCHANGED <<prev, clientState>>

Spec == Init /\ [][Next]_vars

\* The database after the schema is set up and the users have registered:
\* no workouts, no exercises, no progress rows.
InitWorkout ==
    /\ now = 0
    /\ workouts = <<>>
    /\ exercises = <<>>
    /\ nextExerciseId = 1
    /\ nextWorkoutId = 1
    /\ progress = {}
    /\ calls = [c \in CallIds |-> IdleCall]
    /\ prev = Snapshot(IdleCall, 0, exercises, workouts, progress)
    /\ clientState = LoadedState(exercises)

\* The ids a caller passes to Workout.delete and Exercise.create: those the
\* table has handed out or will, and one more.
WorkoutRowArgs == 1..(MaxWorkouts + 1)

\* Workouts created by requests that may overlap, exercises added to them
\* with the default values, and workouts deleted.
NextWorkout ==
    \/ \E c \in CallIds, uid \in Users, day \in Days :
         StartPostWorkout(c, uid, day) /\ UNCHANGED <<prev, clientState>>
    \/ \E c \in CallIds : WorkoutFindUser(c) /\ UNCHANGED <<prev, clientState>>
    \/ \E c \in CallIds : InsertWorkout(c) /\ UNCHANGED <<prev, clientState>>
    \/ \E c \in CallIds, w \in WorkoutRowArgs :
         DeleteWorkout(c, IdArg("num", w)) /\ UNCHANGED <<prev, clientState>>
    \/ \E w \in WorkoutRowArgs :
         CreateExercise(1, w, FALSE, Null) /\ UNCHANGED <<prev, clientState>>

SpecWorkout == InitWorkout /\ [][NextWorkout]_vars

\* A fixture as InitFixture with room for a workout of three exercises.
ProgressExerciseIds == 1..MaxProgressExercises

InitProgress ==
    /\ now = 0
    /\ \E owner \in Users :
         workouts = (1 :> NewWorkout(1, "day1")) @@ (2 :> NewWorkout(owner, "day2"))
    /\ \E place \in [ProgressExerciseIds -> WorkoutIds] :
         /\ \A e1, e2 \in ProgressExerciseIds : e1 <= e2 => place[e1] <= place[e2]
         /\ exercises = [e \in ProgressExerciseIds |-> NewExercise(place[e], FALSE, Null)]
    /\ nextExerciseId = MaxProgressExercises + 1
    /\ nextWorkoutId = Cardinality(WorkoutIds) + 1
    /\ progress = {}
    /\ calls = [c \in CallIds |-> IdleCall]
    /\ prev = Snapshot(IdleCall, 0, exercises, workouts, progress)
    /\ clientState = LoadedState(exercises)

\* Toggles of existing exercises, one call at a time, and the progress of a
\* workout read between them.
NextProgress ==
    \/ \E wid \in WorkoutArgs : GetWorkoutProgress(1, wid) /\ UNCHANGED <<prev, clientState>>
    \/ \E kind \in ToggleKinds, e \in ProgressExerciseIds :
         StartToggle(1, kind, IdArg("num", e)) /\ UNCHANGED <<prev, clientState>>
    \/ FindExercise(1) /\ UNCHANGED <<prev, clientState>>
    \/ DailyWorkout(1) /\ UNCHANGED <<prev, clientState>>
    \/ DailyRead(1) /\ UNCHANGED <<prev, clientState>>
    \/ DailyUpsert(1) /\ UNCHANGED <<prev, clientState>>
    \/ CascadeRead(1) /\ UNCHANGED <<prev, clientState>>
    \/ CascadeFind(1) /\ UNCHANGED <<prev, clientState>>
    \/ CascadeWrite(1) /\ UNCHANGED <<prev, clientState>>

SpecProgress == InitProgress /\ [][NextProgress]_vars

\* The days of the streak window that ends today.
HistoryDays == 0..LookbackDays

\* The database of a user who has been at it for a while: the fixture's
\* workouts and exercises, every exercise incomplete at the moment, and for
\* user 1, who owns exercise 1, a history of days: a day without a toggle has no progress row, a
\* day whose last toggle left nothing completed has a row with completed 0,
\* a day whose last toggle left an exercise completed has a row with
\* completed 1.  Today is the last day of the window.
InitHistory ==
    /\ now = LookbackDays * TicksPerDay
    /\ \E owner \in Users :
         workouts = (1 :> NewWorkout(1, "day1")) @@ (2 :> NewWorkout(owner, "day2"))
    /\ \E place \in [ExerciseIds -> WorkoutIds] :
         /\ \A e1, e2 \in ExerciseIds : e1 <= e2 => place[e1] <= place[e2]
         /\ place[1] = 1
         /\ exercises = [e \in ExerciseIds |-> NewExercise(place[e], FALSE, Null)]
    /\ nextExerciseId = MaxExercises + 1
    /\ nextWorkoutId = Cardinality(WorkoutIds) + 1
    /\ \E history \in [HistoryDays -> {"none", "idle", "done"}] :
         progress = {ProgressRow(1, d, Cardinality(UserExercises(exercises, workouts, 1)),
                                 IF history[d] = "done" THEN 1 ELSE 0)
                        : d \in {x \in HistoryDays : history[x] # "none"}}
    /\ calls = [c \in CallIds |-> IdleCall]
    /\ prev = Snapshot(IdleCall, 0, exercises, workouts, progress)
    /\ clientState = LoadedState(exercises)

\* The reads of the progress routes over such a database.
NextHistory ==
    \/ \E uid \in Users, date \in HistoryDays :
         GetDailyProgress(1, uid, date) /\ UNCHANGED <<prev, clientState>>
    \/ \E uid \in Users, sameTick \in BOOLEAN :
         GetStreak(1, uid, sameTick) /\ UNCHANGED <<prev, clientState>>

SpecHistory == InitHistory /\ [][NextHistory]_vars

\* The years the calendar is asked for: the year of the fixture, a leap
\* year; the year before; a century year that is not a leap year.
CalendarYears == {EpochYear - 1, EpochYear, 2100}

\* The calendar requests over the fixture; months 0 and 13 are refused.
NextCalendar ==
    \E uid \in Users, y \in CalendarYears, m \in 0..13 :
        GetCalendar(1, uid, y, m) /\ UNCHANGED <<prev, clientState>>

SpecCalendar == InitFixture /\ [][NextCalendar]_vars

\* The ids a caller passes to checkAndUpdateWorkoutCompletion: a workout's,
\* one no workout has, and ids the validation refuses.
CompletionArgs ==
    {IdArg("null", 0), IdArg("nan", 0), IdArg("frac", 1)}
        \cup {IdArg("num", v) : v \in (0 - 1)..(Cardinality(WorkoutIds) + 1)}

\* Toggles and deletions of exercise rows by one caller, recomputes of the
\* workout completion by another, in any interleaving of their statements.
NextRecompute ==
    \/ \E kind \in ToggleKinds, arg \in RowArgs :
         StartToggle(1, kind, arg) /\ UNCHANGED <<prev, clientState>>
    \/ \E arg \in RowArgs : DeleteExercise(1, arg) /\ UNCHANGED <<prev, clientState>>
    \/ \E arg \in CompletionArgs :
         StartWorkoutCompletion(2, arg) /\ UNCHANGED <<prev, clientState>>
    \/ FindExercise(1) /\ UNCHANGED <<prev, clientState>>
    \/ DailyWorkout(1) /\ UNCHANGED <<prev, clientState>>
    \/ DailyRead(1) /\ UNCHANGED <<prev, clientState>>
    \/ DailyUpsert(1) /\ UNCHANGED <<prev, clientState>>
    \/ \E c \in CallIds : CascadeRead(c) /\ UNCHANGED <<prev, clientState>>
    \/ \E c \in CallIds : CascadeFind(c) /\ UNCHANGED <<prev, clientState>>
    \/ \E c \in CallIds : CascadeWrite(c) /\ UNCHANGED <<prev, clientState>>

SpecRecompute == InitFixture /\ [][NextRecompute]_vars

\* Toggles by one caller, deletions of workouts and recomputes of the
\* workout completion by another, in any interleaving of their statements;
\* the UPDATE of the workout and the read back of its row are separate
\* statements here.
NextVanish ==
    \/ \E kind \in ToggleKinds, arg \in RowArgs :
         StartToggle(1, kind, arg) /\ UNCHANGED <<prev, clientState>>
    \/ \E w \in WorkoutArgs : DeleteWorkout(2, IdArg("num", w)) /\ UNCHANGED <<prev, clientState>>
    \/ \E arg \in CompletionArgs :
         StartWorkoutCompletion(2, arg) /\ UNCHANGED <<prev, clientState>>
    \/ FindExercise(1) /\ UNCHANGED <<prev, clientState>>
    \/ DailyWorkout(1) /\ UNCHANGED <<prev, clientState>>
    \/ DailyRead(1) /\ UNCHANGED <<prev, clientState>>
    \/ DailyUpsert(1) /\ UNCHANGED <<prev, clientState>>
    \/ \E c \in CallIds : CascadeRead(c) /\ UNCHANGED <<prev, clientState>>
    \/ \E c \in CallIds : CascadeFind(c) /\ UNCHANGED <<prev, clientState>>
    \/ \E c \in CallIds : WorkoutUpdate(c) /\ UNCHANGED <<prev, clientState>>
    \/ \E c \in CallIds : WorkoutReadBack(c) /\ UNCHANGED <<prev, clientState>>

SpecVanish == InitFixture /\ [][NextVanish]_vars

PatchWorkoutKinds == {"patchWorkoutComplete", "patchWorkoutIncomplete"}

\* The requests of a client that change completion: the exercise toggles
\* and the two workout routes, each run to completion before the next
\* starts.
NextClient ==
    \/ Tick /\ UNCHANGED <<prev, clientState>>
    \/ \E kind \in ToggleKinds, arg \in RowArgs :
         StartToggle(1, kind, arg) /\ UNCHANGED <<prev, clientState>>
    \/ \E uid \in Users, kind \in PatchWorkoutKinds, id \in WorkoutArgs :
         StartPatchWorkout(1, uid, kind, id) /\ UNCHANGED <<prev, clientState>>
    \/ PatchWorkoutWrite(1) /\ UNCHANGED <<prev, clientState>>
    \/ FindExercise(1) /\ UNCHANGED <<prev, clientState>>
    \/ DailyWorkout(1) /\ UNCHANGED <<prev, clientState>>
    \/ DailyRead(1) /\ UNCHANGED <<prev, clientState>>
    \/ DailyUpsert(1) /\ UNCHANGED <<prev, clientState>>
    \/ CascadeRead(1) /\ UNCHANGED <<prev, clientState>>
    \/ CascadeFind(1) /\ UNCHANGED <<prev, clientState>>
    \/ CascadeWrite(1) /\ UNCHANGED <<prev, clientState>>

SpecClient == InitFixture /\ [][NextClient]_vars

\* Toggles, each run to completion before the next starts, and streak
\* requests, on servers of any time zone, as time passes.
NextZone ==
    \/ Tick /\ UNCHANGED <<prev, clientState>>
    \/ \E kind \in ToggleKinds, arg \in RowArgs :
         StartToggle(1, kind, arg) /\ UNCHANGED <<prev, clientState>>
    \/ \E uid \in Users, sameTick \in BOOLEAN, zone \in Zones :
         GetStreakAt(1, uid, sameTick, zone) /\ UNCHANGED <<prev, clientState>>
    \/ FindExercise(1) /\ UNCHANGED <<prev, clientState>>
    \/ DailyWorkout(1) /\ UNCHANGED <<prev, clientState>>
    \/ DailyRead(1) /\ UNCHANGED <<prev, clientState>>
    \/ DailyUpsert(1) /\ UNCHANGED <<prev, clientState>>
    \/ CascadeRead(1) /\ UNCHANGED <<prev, clientState>>
    \/ CascadeFind(1) /\ UNCHANGED <<prev, clientState>>
    \/ CascadeWrite(1) /\ UNCHANGED <<prev, clientState>>

SpecZone == InitFixture /\ [][NextZone]_vars

\* The requests of two users that overlap: caller c is user c; each sends
\* exercise toggles and workout completion requests for any id.
NextAccess ==
    \/ \E c \in CallIds, kind \in ToggleKinds, arg \in RowArgs :
         RouteVerifyExercise(c, c, kind, arg) /\ UNCHANGED <<prev, clientState>>
    \/ \E c \in CallIds : RouteVerifyWorkout(c) /\ UNCHANGED <<prev, clientState>>
    \/ \E c \in CallIds : RouteToggle(c) /\ UNCHANGED <<prev, clientState>>
    \/ \E c \in CallIds, kind \in PatchWorkoutKinds, id \in WorkoutArgs :
         StartPatchWorkout(c, c, kind, id) /\ UNCHANGED <<prev, clientState>>
    \/ \E c \in CallIds : PatchWorkoutWrite(c) /\ UNCHANGED <<prev, clientState>>
    \/ \E c \in CallIds : FindExercise(c) /\ UNCHANGED <<prev, clientState>>
    \/ \E c \in CallIds : DailyWorkout(c) /\ UNCHANGED <<prev, clientState>>
    \/ \E c \in CallIds : DailyRead(c) /\ UNCHANGED <<prev, clientState>>
    \/ \E c \in CallIds : DailyUpsert(c) /\ UNCHANGED <<prev, clientState>>
    \/ \E c \in CallIds : CascadeRead(c) /\ UNCHANGED <<prev, clientState>>
    \/ \E c \in CallIds : CascadeFind(c) /\ UNCHANGED <<prev, clientState>>
    \/ \E c \in CallIds : CascadeWrite(c) /\ UNCHANGED <<prev, clientState>>

SpecAccess == InitFixture /\ [][NextAccess]_vars

\* The page of the user who owns the exercise: calls of
\* markExerciseComplete / markExerciseIncomplete that may overlap, the
\* server working through their requests statement by statement, and the
\* responses arriving, or the network failing, in any order.
NextBrowser ==
    \/ \E c \in CallIds, kind \in ToggleKinds : ClientMark(c, kind) /\ UNCHANGED prev
    \/ \E c \in CallIds : ServerReceive(c) /\ UNCHANGED prev
    \/ \E c \in CallIds : ClientReceive(c) /\ UNCHANGED prev
    \/ \E c \in CallIds : ClientNetworkError(c) /\ UNCHANGED prev
    \/ \E c \in CallIds : FindExercise(c) /\ UNCHANGED <<prev, clientState>>
    \/ \E c \in CallIds : DailyWorkout(c) /\ UNCHANGED <<prev, clientState>>
    \/ \E c \in CallIds : DailyRead(c) /\ UNCHANGED <<prev, clientState>>
    \/ \E c \in CallIds : DailyUpsert(c) /\ UNCHANGED <<prev, clientState>>
    \/ \E c \in CallIds : CascadeRead(c) /\ UNCHANGED <<prev, clientState>>
    \/ \E c \in CallIds : CascadeFind(c) /\ UNCHANGED <<prev, clientState>>
    \/ \E c \in CallIds : CascadeWrite(c) /\ UNCHANGED <<prev, clientState>>

SpecBrowser == InitFixture /\ [][NextBrowser]_vars

\* ============================================================== properties
NoCallRunning == \A c \in CallIds : ~Running(c)

\* The rows of table ex that belong to workout w.
RowsOfWorkout(ex, w) == {e \in DOMAIN ex : ex[e].workout_id = w}

\* The rows of table ex that belong to a workout of user u in table wk.
RowsOfUser(ex, wk, u) ==
    UNION {RowsOfWorkout(ex, w) : w \in {x \in DOMAIN wk : wk[x].user_id = u}}

\* Those of them that are completed with completed_at on day d.
RowsCompletedOn(ex, wk, u, d) ==
    {e \in RowsOfUser(ex, wk, u) :
        /\ ToBoolean(ex[e].completed)
        /\ ex[e].completed_at # Null
        /\ ex[e].completed_at \div TicksPerDay = d}

ExercisesOf(w) == RowsOfWorkout(exercises, w)

AllCompleted(w) ==
    /\ ExercisesOf(w) # {}
    /\ \A e \in ExercisesOf(w) : ToBoolean(exercises[e].completed)

\* C1: after any sequence of markCompleted / markIncomplete calls, each run
\* to completion before the next starts, every workout has completed equal
\* to (it has at least one exercise and all of its exercises are completed).
C1_CascadeCorrect ==
    NoCallRunning =>
        \A w \in DOMAIN workouts :
            ToBoolean(workouts[w].completed) <=> AllCompleted(w)

\* A toggle has settled and left a workout of two exercises completed.
C1_Witness ==
    /\ NoCallRunning
    /\ calls[1].kind \in ToggleKinds /\ calls[1].outcome = "ok"
    /\ \E w \in DOMAIN workouts :
         /\ workouts[w].completed = 1
         /\ Cardinality(ExercisesOf(w)) >= 2

\* The step of call c that ends its refresh of the snapshot.
RefreshEnds(c) == calls[c].pc = "dpUpsert" /\ calls'[c].pc # "dpUpsert"

\* C4: right after a refresh of the snapshot of (user, today), run alone or
\* within a toggle, the progress row of (user, today) holds the number of the
\* user's exercises completed today and the user's number of exercises; after
\* markCompleted(e) stamped today it reports completed >= 1.
C4_SnapshotAccurate ==
    [][\A c \in CallIds :
        RefreshEnds(c) =>
            LET u == workouts[calls[c].wid].user_id
                d == calls[c].today
                rows == {r \in progress' : r.user_id = u /\ r.date = d}
            IN /\ Cardinality(rows) = 1
               /\ \A r \in rows :
                    /\ r.completed_exercises =
                         Cardinality(RowsCompletedOn(exercises', workouts', u, d))
                    /\ r.total_exercises =
                         Cardinality(RowsOfUser(exercises', workouts', u))
                    /\ (/\ calls[c].kind = "markCompleted"
                        /\ exercises'[calls[c].arg.v].completed_at \div TicksPerDay = d)
                          => r.completed_exercises >= 1
      ]_vars

\* A toggle has refreshed today's row of a user who has exercises in two
\* workouts, one of them completed on an earlier day and one today.
C4_Witness ==
    /\ calls[1].pc = "wcCount" /\ calls[1].kind = "markCompleted"
    /\ calls[1].today = DateOf(now) /\ now >= TicksPerDay
    /\ \E r \in progress :
         /\ r.user_id = calls[1].uid /\ r.date = calls[1].today
         /\ r.total_exercises = 2 /\ r.completed_exercises = 1
    /\ \E e1, e2 \in DOMAIN exercises :
         /\ exercises[e1].workout_id # exercises[e2].workout_id
         /\ exercises[e1].completed = 1 /\ exercises[e2].completed = 1
         /\ DateOf(exercises[e1].completed_at) < DateOf(exercises[e2].completed_at)

\* ---------------------------------------------------------------- C2, C3
AllSettled == \A c \in CallIds : calls[c].pc = "done"

\* C2: when toggles of different exercises of one workout overlap, all of
\* them succeed and, once all have settled, the workout's completed flag
\* equals (all of its exercises are completed), whatever the interleaving.
C2_ConvergesOriginal ==
    AllSettled =>
        /\ \A c \in CallIds : calls[c].outcome = "ok"
        /\ \A w \in DOMAIN workouts :
             ToBoolean(workouts[w].completed) <=> AllCompleted(w)

\* C3: when toggles of one user's exercises overlap on one day, then once
\* all have settled the progress row of (user, today) holds the number of
\* the user's exercises completed today and the user's number of exercises.
C3_SnapshotConvergesOriginal ==
    AllSettled =>
        \A c \in CallIds :
            LET u == workouts[calls[c].ret.workout_id].user_id IN
            \E r \in progress :
                /\ r.user_id = u /\ r.date = DateOf(now)
                /\ r.completed_exercises =
                     Cardinality(RowsCompletedOn(exercises, workouts, u, DateOf(now)))
                /\ r.total_exercises =
                     Cardinality(RowsOfUser(exercises, workouts, u))

\* -------------------------------------------------------------------- C6
\* The ids the claim calls invalid, and the ids that reference no exercise.
IsBadId(arg) == arg.t \in {"null", "nan"} \/ (arg.t = "num" /\ arg.v <= 0)
IsMissingId(arg) == arg.t = "num" /\ arg.v > 0 /\ arg.v \notin DOMAIN exercises

TablesUnchanged == UNCHANGED <<exercises, workouts, progress>>

\* C6: markCompleted(id) and markIncomplete(id) fail with a validation error
\* when id is null, non-numeric, zero or negative and with a not-found error
\* when id is a positive integer that references no exercise, and in both
\* cases change no exercise, workout or progress row.
C6_RejectsBadId ==
    [][\A kind \in ToggleKinds, arg \in IdArgs :
        StartToggle(1, kind, arg) =>
            /\ IsBadId(arg) =>
                 /\ calls'[1].pc = "done"
                 /\ calls'[1].outcome = "ValidationError"
                 /\ TablesUnchanged
            /\ IsMissingId(arg) =>
                 /\ calls'[1].pc = "done"
                 /\ calls'[1].outcome = "NotFoundError"
                 /\ TablesUnchanged
      ]_vars

\* A toggle of an id that references no exercise was rejected in a database
\* that holds completed exercises and progress rows.
C6_Witness ==
    /\ calls[1].pc = "done" /\ calls[1].kind = "markIncomplete"
    /\ calls[1].outcome = "NotFoundError"
    /\ progress # {}
    /\ \E e \in DOMAIN exercises : exercises[e].completed = 1

\* -------------------------------------------------------------------- C7
\* C7: a successful markCompleted(e) leaves e with completed = true and
\* completed_at = the current time, a successful markIncomplete(e) leaves it
\* with completed = false and completed_at = null, the call returns that row
\* with completed as a boolean, and no other exercise changes.
C7_ToggleEffect ==
    [][/\ \A kind \in ToggleKinds, e \in DOMAIN exercises :
            StartToggle(1, kind, IdArg("num", e)) =>
                /\ DOMAIN exercises' = DOMAIN exercises
                /\ exercises'[e].completed = (IF kind = "markCompleted" THEN 1 ELSE 0)
                /\ exercises'[e].completed_at =
                        (IF kind = "markCompleted" THEN now ELSE Null)
                /\ exercises'[e].workout_id = exercises[e].workout_id
                /\ \A o \in DOMAIN exercises \ {e} : exercises'[o] = exercises[o]
       /\ Running(1) => exercises' = exercises
       /\ (/\ Running(1) /\ calls[1].kind \in ToggleKinds
           /\ calls'[1].pc = "done" /\ calls'[1].outcome = "ok") =>
                LET e == calls[1].arg.v
                    done == calls[1].kind = "markCompleted"
                IN /\ calls'[1].ret.id = e
                   /\ calls'[1].ret.completed \in BOOLEAN
                   /\ calls'[1].ret.completed = done
                   /\ calls'[1].ret.completed_at = exercises'[e].completed_at
                   /\ exercises'[e].completed = (IF done THEN 1 ELSE 0)
                   /\ (exercises'[e].completed_at # Null) = done
      ]_vars

\* markIncomplete has settled on an exercise while another exercise of the
\* same workout stays completed with its timestamp.
C7_Witness ==
    /\ calls[1].pc = "done" /\ calls[1].kind = "markIncomplete"
    /\ calls[1].outcome = "ok"
    /\ calls[1].ret.completed = FALSE /\ calls[1].ret.completed_at = Null
    /\ \E o \in DOMAIN exercises :
         /\ o # calls[1].ret.id
         /\ exercises[o].workout_id = calls[1].ret.workout_id
         /\ exercises[o].completed = 1 /\ exercises[o].completed_at # Null
    /\ now > 0

\* -------------------------------------------------------------------- C5
\* The step that settles a successful markCompleted(e) when the call that
\* settled before it was a successful markCompleted(e) too.
SecondInARow(c) ==
    /\ Running(c) /\ calls[c].kind = "markCompleted"
    /\ calls'[c].pc = "done" /\ calls'[c].outcome = "ok"
    /\ prev.kind = "markCompleted" /\ prev.arg = calls[c].arg

\* C5 as claimed: markCompleted(e) twice in a row leaves the same Exercise,
\* Workout and DailyProgress rows, completed_at included, as once.
C5_IdempotentOriginal ==
    [][SecondInARow(1) =>
        /\ exercises' = prev.ex
        /\ workouts' = prev.wk
        /\ progress' = prev.p
      ]_vars

\* C5 as amended: markCompleted(e) twice in a row leaves the same completed
\* flags on every exercise and workout and every other exercise and workout
\* row as it was; the progress rows are the same when both calls run on one
\* day, and the whole state is the same when the clock reads the same time
\* throughout both calls.
C5_Idempotent ==
    [][SecondInARow(1) =>
        LET e == calls[1].arg.v
            w == exercises[e].workout_id
        IN /\ DOMAIN exercises' = DOMAIN prev.ex
           /\ DOMAIN workouts' = DOMAIN prev.wk
           /\ \A x \in DOMAIN prev.ex :
                /\ exercises'[x].completed = prev.ex[x].completed
                /\ x # e => exercises'[x] = prev.ex[x]
           /\ \A x \in DOMAIN prev.wk :
                /\ workouts'[x].completed = prev.wk[x].completed
                /\ x # w => workouts'[x] = prev.wk[x]
           /\ DateOf(prev.t0) = DateOf(now) => progress' = prev.p
           /\ prev.t0 = now =>
                /\ exercises' = prev.ex
                /\ workouts' = prev.wk
      ]_vars

\* The second of two markCompleted(e) in a row has settled at a later time
\* of the same day, with the workout completed.
C5_Witness ==
    /\ calls[1].pc = "done" /\ calls[1].kind = "markCompleted"
    /\ prev.kind = "markCompleted" /\ prev.arg.v = calls[1].ret.id
    /\ prev.t0 > 0 /\ prev.t0 < TicksPerDay
    /\ exercises[calls[1].ret.id].completed_at = prev.t0
    /\ workouts[calls[1].ret.workout_id].completed = 1
    /\ \E x \in DOMAIN exercises : exercises[x].completed_at = 0

\* -------------------------------------------------------------------- C8
\* C8: in every state reached by Exercise.create, Exercise.update,
\* markCompleted and markIncomplete, every exercise row has completed_at
\* non-null if and only if completed is true.
C8_TimestampIffCompletedOriginal ==
    \A e \in DOMAIN exercises :
        (exercises[e].completed_at # Null) <=> ToBoolean(exercises[e].completed)

\* -------------------------------------------------------------------- C9
\* C9: in every state with no call in progress, whatever operations ran
\* before (creating and deleting exercises included), every workout that
\* has at least one exercise has completed equal to (all of its exercises
\* are completed).
C9_WorkoutMatchesExercisesOriginal ==
    NoCallRunning =>
        \A w \in DOMAIN workouts :
            ExercisesOf(w) # {} =>
                (ToBoolean(workouts[w].completed) <=>
                    \A e \in ExercisesOf(w) : ToBoolean(exercises[e].completed))

\* ------------------------------------------------------------------- C10
\* The rows of table p with the key (uid, day).
RowsOfKey(p, uid, day) == {r \in p : r.user_id = uid /\ r.date = day}

\* C10: every progress row has 0 <= completed_exercises <= total_exercises
\* and there is at most one row per (user, date); a refresh leaves exactly
\* one row with its key, holding the counts the refresh computed, and leaves
\* every row of another key as it was, so the table grows by one row when
\* the key is new and by none when it is not.
C10_ProgressRows ==
    /\ [](\A r \in progress :
            /\ 0 <= r.completed_exercises
            /\ r.completed_exercises <= r.total_exercises
            /\ RowsOfKey(progress, r.user_id, r.date) = {r})
    /\ [][\A c \in CallIds :
            (calls[c].pc = "dpUpsert" /\ calls'[c].pc # "dpUpsert") =>
                LET uid == calls[c].uid
                    day == calls[c].today
                IN /\ RowsOfKey(progress', uid, day) =
                        {ProgressRow(uid, day, calls[c].total, calls[c].completed)}
                   /\ progress' \ RowsOfKey(progress', uid, day) =
                        progress \ RowsOfKey(progress, uid, day)
                   /\ Cardinality(progress') =
                        IF RowsOfKey(progress, uid, day) = {}
                        THEN Cardinality(progress) + 1
                        ELSE Cardinality(progress)
        ]_vars

\* A toggle has just refreshed the row of a (user, date) that held other
\* counts after the call before, next to a row of another date.
C10_Witness ==
    /\ calls[1].pc = "wcCount"
    /\ \E r \in progress, q \in prev.p :
         /\ r.user_id = calls[1].uid /\ r.date = calls[1].today
         /\ q.user_id = r.user_id /\ q.date = r.date
         /\ q.completed_exercises # r.completed_exercises
         /\ r.completed_exercises > 0
    /\ \E r \in progress : r.user_id = calls[1].uid /\ r.date # calls[1].today

\* ------------------------------------------------------------------- C11
\* The workouts of table wk that user u has for day d.
SameDayWorkouts(wk, u, d) == {w \in DOMAIN wk : wk[w].user_id = u /\ wk[w].day = d}

\* C11: no two workouts have the same (user, day); a create request for a
\* (user, day) that has a workout when the request reaches the table ends
\* with an 'already exists' error and leaves the workouts as they are, also
\* when requests overlap; a request that succeeds adds exactly its row.
C11_OneWorkoutPerDay ==
    /\ [](\A u \in Users, d \in Days : Cardinality(SameDayWorkouts(workouts, u, d)) <= 1)
    /\ [][\A c \in CallIds, u \in Users, d \in Days :
            /\ (StartPostWorkout(c, u, d) /\ SameDayWorkouts(workouts, u, d) # {}) =>
                    /\ calls'[c].pc = "done" /\ calls'[c].outcome = "Conflict"
                    /\ workouts' = workouts
            /\ (/\ InsertWorkout(c) /\ calls[c].uid = u /\ calls[c].day = d
                /\ SameDayWorkouts(workouts, u, d) # {}) =>
                    /\ calls'[c].outcome = "AlreadyExists"
                    /\ workouts' = workouts
            /\ (/\ InsertWorkout(c) /\ calls[c].uid = u /\ calls[c].day = d
                /\ calls'[c].outcome = "ok") =>
                    /\ SameDayWorkouts(workouts, u, d) = {}
                    /\ Cardinality(SameDayWorkouts(workouts', u, d)) = 1
                    /\ \A w \in DOMAIN workouts :
                         w \in DOMAIN workouts' /\ workouts'[w] = workouts[w]
        ]_vars

\* Two create requests for one (user, day) overlapped: both passed the
\* route's lookup, one inserted the row and the other was refused by the
\* table.
C11_Witness ==
    \E c1, c2 \in CallIds :
        /\ calls[c1].kind = "postWorkout" /\ calls[c1].outcome = "AlreadyExists"
        /\ calls[c2].kind = "postWorkout" /\ calls[c2].outcome = "ok"
        /\ calls[c2].ret.id \in DOMAIN workouts
        /\ Cardinality(DOMAIN workouts) >= 2

\* ------------------------------------------------------------------- C12
\* C12: getWorkoutProgress(w) returns total = the number of exercises of w,
\* completed = the number of them that are completed, and percentage = the
\* integer nearest to completed / total * 100, or 0 when total is 0; with
\* three exercises 0, 1, 2, 3 completed give 0, 33, 67, 100.  It changes no
\* row.
C12_WorkoutProgress ==
    [][\A wid \in WorkoutArgs :
        GetWorkoutProgress(1, wid) =>
            LET r == calls'[1].ret
                rows == RowsOfWorkout(exercises, wid)
                done == {e \in rows : exercises[e].completed = 1}
            IN /\ r.total = Cardinality(rows)
               /\ r.completed = Cardinality(done)
               /\ r.total = 0 => r.percentage = 0
               /\ r.total > 0 =>
                    /\ 2 * (r.percentage * r.total - 100 * r.completed) <= r.total
                    /\ 2 * (100 * r.completed - r.percentage * r.total) <= r.total
               /\ r.total = 3 =>
                    r.percentage = CASE r.completed = 0 -> 0
                                     [] r.completed = 1 -> 33
                                     [] r.completed = 2 -> 67
                                     [] OTHER -> 100
               /\ TablesUnchanged
      ]_vars

\* The progress of a workout of three exercises was read with two of them
\* completed.
C12_Witness ==
    /\ calls[1].kind = "getWorkoutProgress" /\ calls[1].pc = "done"
    /\ calls[1].ret.total = 3 /\ calls[1].ret.completed = 2
    /\ calls[1].ret.percentage = 67

\* ------------------------------------------------------------ C13 .. C16
\* The first day of the lookback window that ends today.
WindowStart == DateOf(now) - LookbackDays

\* Day d has a workout for user u: its progress row shows an exercise
\* completed.
HasWorkoutOn(u, d) ==
    \E r \in progress : r.user_id = u /\ r.date = d /\ r.completed_exercises > 0

\* The length of the run of consecutive days with a workout that ends at
\* day d, within the window.
RunEndingAt(u, d) ==
    Cardinality({k \in 1..(d - WindowStart + 1) :
                    \A j \in 0..(k - 1) : HasWorkoutOn(u, d - j)})

\* The days of the window that have a workout.
WorkoutDays(u) == {d \in WindowStart..DateOf(now) : HasWorkoutOn(u, d)}

\* C13: currentStreak is the length of the run that ends today when today
\* has a workout, of the run that ends yesterday when today has none and
\* yesterday has one, and 0 when both have none.
C13_CurrentStreakOriginal ==
    [][\A u \in Users, sameTick \in BOOLEAN :
        GetStreak(1, u, sameTick) =>
            LET today == DateOf(now) IN
            calls'[1].ret.currentStreak =
                IF HasWorkoutOn(u, today) THEN RunEndingAt(u, today)
                ELSE IF HasWorkoutOn(u, today - 1) THEN RunEndingAt(u, today - 1)
                ELSE 0
      ]_vars

\* C14: longestStreak is the length of the longest run of consecutive days
\* with a workout anywhere in the window (stated here for the requests
\* whose window reaches today).
C14_LongestStreakOriginal ==
    [][\A u \in Users :
        GetStreak(1, u, TRUE) =>
            /\ \A d \in WindowStart..DateOf(now) :
                    calls'[1].ret.longestStreak >= RunEndingAt(u, d)
            /\ \/ calls'[1].ret.longestStreak = 0
               \/ \E d \in WindowStart..DateOf(now) :
                    calls'[1].ret.longestStreak = RunEndingAt(u, d)
      ]_vars

\* C15: lastWorkoutDate is the latest day of the window that has a workout
\* and null only when no day of the window has one (stated here for the
\* requests whose window reaches today).
C15_LastWorkoutDateOriginal ==
    [][\A u \in Users :
        GetStreak(1, u, TRUE) =>
            LET last == calls'[1].ret.lastWorkoutDate IN
            IF WorkoutDays(u) = {} THEN last = Null
            ELSE /\ last \in WorkoutDays(u)
                 /\ \A d \in WorkoutDays(u) : d <= last
      ]_vars

\* C16: every streak result has longestStreak >= currentStreak >= 0, and a
\* window without a workout gives currentStreak = 0, longestStreak = 0 and
\* lastWorkoutDate = null.
C16_StreakBounds ==
    [][\A u \in Users, sameTick \in BOOLEAN :
        GetStreak(1, u, sameTick) =>
            LET r == calls'[1].ret IN
            /\ r.currentStreak >= 0
            /\ r.longestStreak >= r.currentStreak
            /\ WorkoutDays(u) = {} =>
                    /\ r.currentStreak = 0 /\ r.longestStreak = 0
                    /\ r.lastWorkoutDate = Null
      ]_vars

\* A streak was computed over a window in which every day has a workout.
C16_Witness ==
    /\ calls[1].kind = "getStreak" /\ calls[1].pc = "done"
    /\ calls[1].ret.currentStreak = LookbackDays + 1
    /\ calls[1].ret.longestStreak = LookbackDays + 1
    /\ \A d \in WindowStart..DateOf(now) : HasWorkoutOn(1, d)

\* ---- C17
\* The day of the week of a calendar date by Zeller's congruence, with
\* 0 = Sunday ... 6 = Saturday.
ZellerWeekday(y, m, d) ==
    LET mm == IF m < 3 THEN m + 12 ELSE m
        yy == IF m < 3 THEN y - 1 ELSE y
        K == yy % 100
        J == yy \div 100
        h == (d + ((13 * (mm + 1)) \div 5) + K + (K \div 4) + (J \div 4) + 5 * J) % 7
    IN (h + 6) % 7

\* The number of days of month m of year y by the calendar rule.
DaysInMonth(y, m) ==
    IF m = 2
    THEN (IF (y % 4 = 0 /\ y % 100 # 0) \/ y % 400 = 0 THEN 29 ELSE 28)
    ELSE IF m \in {4, 6, 9, 11} THEN 30 ELSE 31

CalendarOk(c) ==
    /\ calls[c].kind = "getCalendar"
    /\ calls[c].pc = "done"
    /\ calls[c].outcome = "ok"

CurrentCells(cal) == {i \in DOMAIN cal : cal[i].isCurrentMonth}

C18_ZeroFilledOriginal ==
    [][\A u \in Users, d \in HistoryDays :
        (GetDailyProgress(1, u, d) /\ RowsOfKey(progress, u, d) = {}) =>
            /\ calls'[1].ret.total = 0
            /\ calls'[1].ret.completed = 0
            /\ calls'[1].ret.percentage = 0
      ]_vars

\* ---- C19
\* C19: the count query of the recompute reads the number of exercise rows
\* of the workout and the number of them that are completed; a recompute
\* that counted zero exercises leaves the workout with completed = false
\* and completed_at = null; a recompute leaves the workout completed only
\* if it counted at least one exercise and counted all of them completed;
\* no other workout is written.
C19_EmptyWorkoutIncomplete ==
    [][\A c \in CallIds :
        /\ (CascadeRead(c) /\ calls'[c].pc = "wcFind") =>
              /\ calls'[c].total = Cardinality(RowsOfWorkout(exercises, calls[c].wid))
              /\ calls'[c].completed =
                    Cardinality({e \in RowsOfWorkout(exercises, calls[c].wid) :
                                    exercises[e].completed = 1})
        /\ (CascadeWrite(c) /\ calls[c].wid \in DOMAIN workouts) =>
              LET w == calls[c].wid IN
              /\ calls[c].total = 0 =>
                    (workouts'[w].completed = 0 /\ workouts'[w].completed_at = Null)
              /\ workouts'[w].completed = 1 =>
                    (calls[c].total > 0 /\ calls[c].completed = calls[c].total)
              /\ workouts'[w].completed = 0 => workouts'[w].completed_at = Null
              /\ \A v \in DOMAIN workouts \ {w} : workouts'[v] = workouts[v]
              /\ calls[c].kind = "checkAndUpdateWorkoutCompletion" =>
                    (calls'[c].ret.isComplete <=> workouts'[w].completed = 1)
      ]_vars

\* A recompute of workout 1 counted zero exercises and settled; the workout
\* is incomplete, and the other caller's toggle, which completed the
\* exercise the workout had before it was deleted, has settled too.
C19_Witness ==
    /\ calls[2].kind = "checkAndUpdateWorkoutCompletion"
    /\ calls[2].pc = "done"
    /\ calls[2].outcome = "ok"
    /\ calls[2].ret.total = 0
    /\ calls[2].ret.workoutId = 1
    /\ ~calls[2].ret.isComplete
    /\ workouts[1].completed = 0
    /\ workouts[1].completed_at = Null
    /\ RowsOfWorkout(exercises, 1) = {}
    /\ \E r \in progress : r.user_id = 1 /\ r.completed_exercises > 0

\* ---- C20
\* C20: every exercise row references a workout row; Workout.delete of a
\* workout removes the workout and exactly the exercise rows that reference
\* it, so that afterwards no exercise row references it; the exercise rows
\* of other workouts stay as they are.
C20_DeleteCascades ==
    /\ [](\A e \in DOMAIN exercises : exercises[e].workout_id \in DOMAIN workouts)
    /\ [][\A c \in CallIds, w \in WorkoutRowArgs :
            (DeleteWorkout(c, IdArg("num", w)) /\ w \in DOMAIN workouts) =>
                /\ w \notin DOMAIN workouts'
                /\ RowsOfWorkout(exercises', w) = {}
                /\ DOMAIN exercises' = DOMAIN exercises \ RowsOfWorkout(exercises, w)
                /\ \A e \in DOMAIN exercises' : exercises'[e] = exercises[e]
                /\ \A v \in DOMAIN workouts \ {w} :
                     v \in DOMAIN workouts' /\ workouts'[v] = workouts[v]
        ]_vars

\* A workout that had an exercise was deleted and its exercise went with
\* it, while the exercise of another workout is still there.
C20_Witness ==
    /\ \E c \in CallIds : calls[c].kind = "deleteWorkout" /\ calls[c].pc = "done"
    /\ \E w \in 1..(nextWorkoutId - 1) : w \notin DOMAIN workouts
    /\ \E e \in 1..(nextExerciseId - 1) : e \notin DOMAIN exercises
    /\ \E e \in DOMAIN exercises : exercises[e].workout_id \in DOMAIN workouts

\* ---- C21
CompletionKinds == ToggleKinds \cup {"checkAndUpdateWorkoutCompletion"}

\* The step settles the running call of slot c with a success.
SettlesOk(c) ==
    /\ Running(c)
    /\ calls'[c].pc = "done"
    /\ calls'[c].outcome = "ok"

\* C21 as stated: a toggle call that reports success still has its owning
\* workout when it settles, at whatever moment of the call the workout
\* was deleted.
C21_VanishedWorkoutFailsOriginal ==
    [][\A c \in CallIds :
        (SettlesOk(c) /\ calls[c].kind \in ToggleKinds) =>
            calls[c].wid \in DOMAIN workouts'
      ]_vars

\* C21: a recompute whose workout id references no workout when it looks
\* the workout up fails with a not-found error (wrapped in a database error
\* inside a toggle), and no step of a recompute that fails writes a row;
\* a toggle whose workout is gone when the refresh looks it up, when the
\* recompute looks it up or when the recompute writes it fails with an
\* error; a toggle or recompute reports success only after its UPDATE found
\* the workout row.
C21_VanishedWorkoutFails ==
    [][\A c \in CallIds :
        /\ (CascadeFind(c) /\ calls[c].wid \notin DOMAIN workouts) =>
              /\ calls'[c].pc = "done"
              /\ calls'[c].outcome =
                    (IF calls[c].kind \in ToggleKinds
                     THEN "DatabaseError" ELSE "NotFoundError")
              /\ TablesUnchanged
        /\ (CascadeRead(c) \/ CascadeFind(c)) => TablesUnchanged
        /\ (DailyWorkout(c) /\ calls[c].wid \notin DOMAIN workouts) =>
              /\ calls'[c].pc = "done"
              /\ calls'[c].outcome \in {"DatabaseError", "NotFoundError"}
              /\ TablesUnchanged
        /\ (WorkoutUpdate(c) /\ calls[c].wid \notin DOMAIN workouts) =>
              /\ calls'[c].pc = "done"
              /\ calls'[c].outcome = "DatabaseError"
              /\ TablesUnchanged
        /\ (SettlesOk(c) /\ calls[c].kind \in CompletionKinds) =>
              calls[c].pc = "wcReadBack"
        /\ (calls'[c].pc = "wcReadBack" /\ calls[c].pc # "wcReadBack") =>
              (calls[c].pc = "wcWrite" /\ calls[c].wid \in DOMAIN workouts)
      ]_vars

\* A toggle got as far as the progress row and then failed, its workout
\* deleted by the other caller meanwhile; the deleted workout took its
\* exercises with it.
C21_Witness ==
    /\ calls[1].kind \in ToggleKinds
    /\ calls[1].pc = "done"
    /\ calls[1].outcome = "DatabaseError"
    /\ calls[2].kind = "deleteWorkout"
    /\ calls[2].pc = "done"
    /\ progress # {}
    /\ \E w \in WorkoutIds : w \notin DOMAIN workouts
    /\ \A w \in DOMAIN workouts : workouts[w].completed = 0

\* ---- C22
\* C22: the completed and completed_at fields of a workout change only in
\* the write of the completion cascade of an exercise toggle, which sets
\* completed to 'the workout has exercises and all are completed'.
C22_OnlyCascadeWritesOriginal ==
    [][\A w \in DOMAIN workouts :
        (/\ w \in DOMAIN workouts'
         /\ \/ workouts'[w].completed # workouts[w].completed
            \/ workouts'[w].completed_at # workouts[w].completed_at) =>
            \E c \in CallIds :
                /\ CascadeWrite(c)
                /\ calls[c].kind \in ToggleKinds
                /\ calls[c].wid = w
                /\ workouts'[w].completed = 1 <=>
                      (RowsOfWorkout(exercises, w) # {}
                       /\ \A e \in RowsOfWorkout(exercises, w) : exercises[e].completed = 1)
      ]_vars

\* ---- C23
\* C23: computing the streak of a user writes nothing: the exercise, workout
\* and progress rows and the keys the tables hand out next are the same
\* after the computation as before, whether the dates of the window have
\* progress rows or are read from the exercises.
C23_StreakWritesNothing ==
    [][\A u \in Users, sameTick \in BOOLEAN :
        GetStreak(1, u, sameTick) =>
            /\ exercises' = exercises
            /\ workouts' = workouts
            /\ progress' = progress
            /\ nextExerciseId' = nextExerciseId
            /\ nextWorkoutId' = nextWorkoutId
      ]_vars

\* A streak was computed and found a workout, over a window in which a day
\* has no progress row and was read from the exercises; the day still has
\* no row.
C23_Witness ==
    /\ calls[1].kind = "getStreak" /\ calls[1].pc = "done"
    /\ calls[1].ret.currentStreak >= 1
    /\ \E d \in WindowStart..DateOf(now) : RowsOfKey(progress, 1, d) = {}
    /\ \E d \in WindowStart..DateOf(now) : RowsOfKey(progress, 1, d) # {}

\* ---- C24
\* C24: within one toggle call the order is exercise update, workout
\* recompute, progress refresh: the write of the progress row is the last
\* write of the call, made after the workout was written, and the write of
\* the workout is followed by the refresh.
C24_StepOrderOriginal ==
    [][\A c \in CallIds :
        calls[c].kind \in ToggleKinds =>
            /\ DailyUpsert(c) =>
                  (calls'[c].pc = "done" /\ calls'[c].outcome = "ok")
            /\ (CascadeWrite(c) /\ calls[c].wid \in DOMAIN workouts) =>
                  calls'[c].pc = "dpWorkout"
      ]_vars

\* ---- C25
\* C25: at every point of a toggle call, the points between its writes
\* included, each exercise has completed_at non-null iff completed, each
\* workout with at least one exercise has completed equal to 'all its
\* exercises are completed', and each progress row has completed_exercises
\* <= total_exercises.
C25_LocalInvariantsOriginal ==
    /\ \A e \in DOMAIN exercises :
         ToBoolean(exercises[e].completed) <=> exercises[e].completed_at # Null
    /\ \A w \in DOMAIN workouts :
         ExercisesOf(w) # {} => (ToBoolean(workouts[w].completed) <=> AllCompleted(w))
    /\ \A r \in progress : r.completed_exercises <= r.total_exercises

\* ---- C26
\* C26: a toggle stores its progress row under the server's local date, the
\* date the streak treats as today: when the streak is computed (its window
\* reaching today) for a user who has an exercise that was completed today
\* on the server's clock and is still completed, today counts as a day with
\* a workout, so lastWorkoutDate is today and currentStreak is at least 1.
C26_LocalDateOriginal ==
    [][\A u \in Users, zone \in Zones :
        (/\ GetStreakAt(1, u, TRUE, zone)
         /\ \E e \in RowsOfUser(exercises, workouts, u) :
               /\ ToBoolean(exercises[e].completed)
               /\ exercises[e].completed_at # Null
               /\ LocalDateOf(exercises[e].completed_at, zone) = LocalDateOf(now, zone)) =>
            /\ calls'[1].ret.lastWorkoutDate = LocalDateOf(now, zone)
            /\ calls'[1].ret.currentStreak >= 1
      ]_vars

\* The same on a server whose clock is UTC, where it holds.
StreakReadsTodayUtc ==
    [][\A u \in Users :
        (/\ GetStreakAt(1, u, TRUE, 0)
         /\ \E e \in RowsOfUser(exercises, workouts, u) :
               /\ ToBoolean(exercises[e].completed)
               /\ exercises[e].completed_at # Null
               /\ DateOf(exercises[e].completed_at) = DateOf(now)) =>
            /\ calls'[1].ret.lastWorkoutDate = DateOf(now)
            /\ calls'[1].ret.currentStreak >= 1
      ]_vars

\* ---- C27
\* C27: of the statements of a toggle call only the upsert changes the
\* progress table, and it changes only the row of the user who owns the
\* toggled exercise's workout for the date the call read as today, a date
\* between the start of the call and now; rows of other dates and of other
\* users are as before, also when the exercise had been completed on an
\* earlier date whose row still counts it.
C27_ToggleProgressFrame ==
    [][\A c \in CallIds :
        /\ (\/ \E kind \in ToggleKinds, arg \in IdArgs : StartToggle(c, kind, arg)
            \/ FindExercise(c) \/ DailyWorkout(c) \/ DailyRead(c)
            \/ CascadeRead(c) \/ CascadeFind(c) \/ CascadeWrite(c)) =>
                progress' = progress
        /\ (DailyUpsert(c) /\ calls[c].kind \in ToggleKinds) =>
              LET owner == workouts[exercises[calls[c].arg.v].workout_id].user_id
                  day == calls[c].today
              IN /\ calls[c].uid = owner
                 /\ DateOf(calls[c].t0) <= day
                 /\ day <= DateOf(now)
                 /\ \A r \in progress \cup progress' :
                      (r.user_id # owner \/ r.date # day) =>
                          (r \in progress /\ r \in progress')
      ]_vars

\* An exercise completed on day 0 was marked incomplete on day 1: the row
\* of day 1 counts nothing completed, the row of day 0 still counts the
\* completion, and no exercise of the user is completed.
C27_Witness ==
    /\ calls[1].kind = "markIncomplete"
    /\ calls[1].pc = "done"
    /\ calls[1].outcome = "ok"
    /\ \E u \in Users :
         /\ RowsOfUser(exercises, workouts, u) # {}
         /\ \A e \in RowsOfUser(exercises, workouts, u) : exercises[e].completed = 0
         /\ \E r \in RowsOfKey(progress, u, 0) : r.completed_exercises > 0
         /\ \E r \in RowsOfKey(progress, u, 1) : r.completed_exercises = 0

\* ---- C28
\* The step leaves every row of a user other than u as it is.
OthersUntouched(u) ==
    /\ \A w \in DOMAIN workouts :
         workouts[w].user_id # u =>
            (w \in DOMAIN workouts' /\ workouts'[w] = workouts[w])
    /\ \A e \in DOMAIN exercises :
         workouts[exercises[e].workout_id].user_id # u =>
            (e \in DOMAIN exercises' /\ exercises'[e] = exercises[e])
    /\ {r \in progress : r.user_id # u} = {r \in progress' : r.user_id # u}

\* C28: a complete / incomplete request of user A for an exercise whose
\* workout belongs to another user ends with an authorization error, and
\* neither it nor the lookup before it writes a row; the request reaches
\* the toggle only for an exercise of A's own workout; no statement of a
\* request of A, toggle or workout completion request, changes an
\* exercise, workout or progress row of another user, also when the
\* requests of the two users overlap.
C28_NoCrossUserWrite ==
    [][\A c \in CallIds :
        /\ calls'[c] # calls[c] => OthersUntouched(c)
        /\ (\E kind \in ToggleKinds, arg \in RowArgs :
                RouteVerifyExercise(c, c, kind, arg)) => TablesUnchanged
        /\ RouteVerifyWorkout(c) => TablesUnchanged
        /\ (/\ RouteVerifyWorkout(c)
            /\ calls[c].wid \in DOMAIN workouts
            /\ workouts[calls[c].wid].user_id # c) =>
                (calls'[c].pc = "done" /\ calls'[c].outcome = "AuthorizationError")
        /\ (RouteToggle(c) /\ calls[c].arg.v \in DOMAIN exercises) =>
                workouts[exercises[calls[c].arg.v].workout_id].user_id = c
      ]_vars

\* User 1 asked for a toggle of an exercise of user 2 and was refused; the
\* exercises of user 2 are as user 2's own toggle left them.
C28_Witness ==
    /\ calls[1].kind \in ToggleKinds
    /\ calls[1].pc = "done"
    /\ calls[1].outcome = "AuthorizationError"
    /\ calls[2].kind = "markCompleted"
    /\ calls[2].pc = "done"
    /\ calls[2].outcome = "ok"
    /\ RowsOfUser(exercises, workouts, 2) # {}
    /\ \A e \in RowsOfUser(exercises, workouts, 2) : exercises[e].completed = 1
    /\ workouts[2].user_id = 2 /\ workouts[2].completed = 1

\* ---- C29
\* The dates of the model's clock.
ClockDates == 0..DateOf(MaxTime)

\* C29: in every reachable state of the database, for every user and date,
\* getDailyProgress returns completed <= total and 0 <= percentage <= 100,
\* from a stored row and from the exercises alike.
C29_DailyProgressBoundsOriginal ==
    \A u \in Users, d \in ClockDates :
        LET r == DailyProgressOf(progress, exercises, workouts, u, d)
        IN /\ r.completed <= r.total
           /\ 0 <= r.percentage
           /\ r.percentage <= 100

\* ---- C30
\* No call of markExerciseComplete / markExerciseIncomplete is in flight.
NoClientCall == \A c \in CallIds : calls[c].pc = "idle"

\* C30: once every call of markExerciseComplete / markExerciseIncomplete
\* for the exercise has settled, the completed flag the browser holds for
\* it equals the completed flag stored on the server.
C30_ClientMatchesServerOriginal ==
    NoClientCall =>
        clientState[BrowserExercise] = ToBoolean(exercises[BrowserExercise].completed)

====
